---- MODULE Spec2Model ----
(***************************************************************************)
(* Source-reference validation of the valyu client (valyu/validation.py).  *)
(* A Python str is a sequence of one-character strings.  Regular           *)
(* expressions are modelled by the positions they can match up to, and     *)
(* urllib.parse.urlparse by the steps of urlsplit that decide the scheme   *)
(* and the netloc.                                                         *)
(***************************************************************************)
EXTENDS Integers, Sequences, FiniteSets, TLC

VARIABLES source, op, result, raised

\* list objects by reference, the arguments and the return value of the
\* call in progress, the number of validate_source invocations so far and
\* the HTTP requests sent so far
VARIABLES heap, args, ret, nvalidate, sent

\* the cache of urllib.parse.urlsplit, the callers running validation
\* concurrently and the validate_source results returned so far
VARIABLES cache, threads, log

callVars == <<cache, threads, log>>

\* DeepResearchClient.wait: its position, the clock read by time.time(),
\* its arguments and locals, how it ended, the statuses handed to
\* on_progress and the number of status fetches.  The position, the
\* status, the ending and the number of fetches serve
\* DeepResearchClient.stream as well.
VARIABLES pc, clock, wait_args, start_time, status, outcome, progress, polls

waitVars == <<pc, clock, wait_args, start_time, status, outcome, progress, polls>>

\* DeepResearchClient.stream: the callbacks it was given, its local
\* last_message_count, and the status fetches and callback invocations
\* made so far, in order
VARIABLES stream_args, last_message_count, trace

streamVars == <<stream_args, last_message_count, trace>>

\* what the connection and the server did with each request of sent
VARIABLES replies

httpVars == <<replies>>

extraVars == <<heap, args, ret, nvalidate, sent, callVars, waitVars, streamVars, httpVars>>

vars == <<source, op, result, raised, extraVars>>

\* no concurrent callers
CallIdle ==
    /\ cache = {}
    /\ threads = << >>
    /\ log = << >>

\* no wait in progress
WaitIdle ==
    /\ pc = "idle"
    /\ clock = 0
    /\ wait_args = [fn |-> "none"]
    /\ start_time = 0
    /\ status = [success |-> FALSE, status |-> "None"]
    /\ outcome = [kind |-> "none"]
    /\ progress = << >>
    /\ polls = 0

\* no request sent
HttpIdle == replies = << >>

\* no stream in progress
StreamIdle ==
    /\ stream_args = [fn |-> "none"]
    /\ last_message_count = 0
    /\ trace = << >>

\* nothing but validate_source on one string is going on
ExtraIdle ==
    /\ heap = << >>
    /\ args = [fn |-> "validate_source"]
    /\ ret = [fn |-> "none"]
    /\ nvalidate = 0
    /\ sent = << >>
    /\ CallIdle
    /\ WaitIdle
    /\ StreamIdle
    /\ HttpIdle

---------------------------------------------------------------------------
(* Bounds of the input space *)

\* longest exhaustively enumerated body appended to a head
MaxBody == 3
\* most labels of a long all-letter dotted name
MaxLabels == 4

---------------------------------------------------------------------------
(* Characters *)

ascii_lowercase ==
    {"a","b","c","d","e","f","g","h","i","j","k","l","m",
     "n","o","p","q","r","s","t","u","v","w","x","y","z"}

ascii_uppercase ==
    {"A","B","C","D","E","F","G","H","I","J","K","L","M",
     "N","O","P","Q","R","S","T","U","V","W","X","Y","Z"}

ascii_letters == ascii_lowercase \cup ascii_uppercase

digits == {"0","1","2","3","4","5","6","7","8","9"}

\* [a-zA-Z0-9]
AlnumChars == ascii_letters \cup digits

\* [a-zA-Z0-9\-]
AlnumHyphenChars == AlnumChars \cup {"-"}

\* [a-zA-Z0-9_-]
DatasetChars == AlnumChars \cup {"_", "-"}

\* string.ascii_letters + string.digits + "-_.~!*'();:@&=+$,/?#[]"
allowed_chars ==
    ascii_letters \cup digits \cup
    {"-","_",".","~","!","*","'","(",")",";",":","@","&","=","+","$",",",
     "/","?","#","[","]"}

\* urllib.parse.scheme_chars: letters, digits and "+-."
scheme_chars == ascii_letters \cup digits \cup {"+", "-", "."}

\* urllib.parse._UNSAFE_URL_BYTES_TO_REMOVE
UNSAFE_URL_BYTES_TO_REMOVE == {"\t", "\r", "\n"}

\* urllib.parse._WHATWG_C0_CONTROL_OR_SPACE, as far as the str alphabet here goes
WHATWG_C0_CONTROL_OR_SPACE == {"\t", "\r", "\n", " "}

UpperSeq ==
    <<"A","B","C","D","E","F","G","H","I","J","K","L","M",
      "N","O","P","Q","R","S","T","U","V","W","X","Y","Z">>

LowerSeq ==
    <<"a","b","c","d","e","f","g","h","i","j","k","l","m",
      "n","o","p","q","r","s","t","u","v","w","x","y","z">>

\* str.lower() on one character
LowerChar(c) ==
    IF c \in ascii_uppercase
    THEN LowerSeq[CHOOSE i \in 1..26 : UpperSeq[i] = c]
    ELSE c

---------------------------------------------------------------------------
(* str helpers *)

\* c in s
Contains(s, c) == \E i \in 1..Len(s) : s[i] = c

\* s.find(c) + 1: the first position of c in s, 0 when absent
Find(s, c) ==
    IF Contains(s, c)
    THEN CHOOSE i \in 1..Len(s) : s[i] = c /\ \A j \in 1..(i-1) : s[j] # c
    ELSE 0

\* s.count(c)
Count(s, c) == Cardinality({i \in 1..Len(s) : s[i] = c})

\* s.startswith(pre)
StartsWith(s, pre) == Len(s) >= Len(pre) /\ SubSeq(s, 1, Len(pre)) = pre

\* s.endswith(c) for one character
EndsWithChar(s, c) == Len(s) >= 1 /\ s[Len(s)] = c

\* s.split(c, 1)[0] and s.split(c)[0]: the text before the first c
BeforeFirst(s, c) == IF Contains(s, c) THEN SubSeq(s, 1, Find(s, c) - 1) ELSE s

\* s.split(c, 1)[1]: the text after the first c (only when c in s)
AfterFirst(s, c) == SubSeq(s, Find(s, c) + 1, Len(s))

\* s.replace(c, "") for every c in cs
RemoveChars(s, cs) == SelectSeq(s, LAMBDA c : c \notin cs)

\* s.lstrip(cs)
LStrip(s, cs) ==
    IF \A i \in 1..Len(s) : s[i] \in cs
    THEN << >>
    ELSE SubSeq(s, CHOOSE i \in 1..Len(s) :
                       s[i] \notin cs /\ \A j \in 1..(i-1) : s[j] \in cs,
                Len(s))

\* s.isdigit() on ASCII text
IsDigit(s) == Len(s) >= 1 /\ \A i \in 1..Len(s) : s[i] \in digits

\* s.lower()
Lower(s) == [i \in 1..Len(s) |-> LowerChar(s[i])]

Min(a, b) == IF a <= b THEN a ELSE b

---------------------------------------------------------------------------
(* Regular expressions: a pattern piece started at position i matches up   *)
(* to (not including) position j.                                          *)

\* `$` without re.MULTILINE: the end of the string, or just before a
\* newline that is the last character
DollarAt(s, p) == p = Len(s) + 1 \/ (p = Len(s) /\ s[p] = "\n")

\* [a-zA-Z0-9]([a-zA-Z0-9\-]{0,61}[a-zA-Z0-9])? started at i
LabelEnds(s, i) ==
    { j \in (i+1)..Min(i + 63, Len(s) + 1) :
        /\ s[i] \in AlnumChars
        /\ \/ j = i + 1
           \/ /\ s[j-1] \in AlnumChars
              /\ \A k \in (i+1)..(j-2) : s[k] \in AlnumHyphenChars }

\* (\.[a-zA-Z0-9]([a-zA-Z0-9\-]{0,61}[a-zA-Z0-9])?)*$ started at p
RECURSIVE DomainRest(_, _)
DomainRest(s, p) ==
    \/ DollarAt(s, p)
    \/ /\ p <= Len(s)
       /\ s[p] = "."
       /\ \E j \in LabelEnds(s, p + 1) : DomainRest(s, j)

\* re.match(domain_pattern, s)
MatchDomainPattern(s) == \E j \in LabelEnds(s, 1) : DomainRest(s, j)

\* re.match(r"^[a-zA-Z0-9_-]+/[a-zA-Z0-9_-]+$", s)
MatchDatasetPattern(s) ==
    \E i \in 2..Len(s) :
        /\ s[i] = "/"
        /\ \A k \in 1..(i-1) : s[k] \in DatasetChars
        /\ \E p \in (i+2)..(Len(s) + 1) :
              /\ DollarAt(s, p)
              /\ \A k \in (i+1)..(p-1) : s[k] \in DatasetChars

---------------------------------------------------------------------------
(* urllib.parse.urlparse, as far as is_valid_url_with_path reads it: the   *)
(* scheme, the netloc and whether ValueError is raised.                    *)

\* step 1 of urlsplit: lstrip, then drop tab, CR and LF everywhere
UrlCleaned(url) ==
    RemoveChars(LStrip(url, WHATWG_C0_CONTROL_OR_SPACE), UNSAFE_URL_BYTES_TO_REMOVE)

\* step 2 of urlsplit: does the text before the first ":" form a scheme
UrlHasScheme(u) ==
    /\ Find(u, ":") > 1
    /\ u[1] \in ascii_letters
    /\ \A k \in 1..(Find(u, ":") - 1) : u[k] \in scheme_chars

UrlScheme(u) == IF UrlHasScheme(u) THEN Lower(SubSeq(u, 1, Find(u, ":") - 1)) ELSE << >>

UrlAfterScheme(u) == IF UrlHasScheme(u) THEN SubSeq(u, Find(u, ":") + 1, Len(u)) ELSE u

\* _splitnetloc(url, 2)[0]: from position 3 up to the first of "/?#"
SplitNetloc(u) ==
    LET delims == { i \in 3..Len(u) : u[i] \in {"/", "?", "#"} }
        delim  == IF delims = {} THEN Len(u) + 1
                  ELSE CHOOSE i \in delims : \A j \in delims : i <= j
    IN  SubSeq(u, 3, delim - 1)

UrlNetloc(u) ==
    IF StartsWith(UrlAfterScheme(u), <<"/", "/">>)
    THEN SplitNetloc(UrlAfterScheme(u))
    ELSE << >>

\* "Invalid IPv6 URL": one bracket without the other.  A netloc with both
\* brackets goes through ipaddress.ip_address; every input of this model
\* has at most an opening bracket, so that parse is not modelled and such a
\* netloc counts as raising.
UrlRaises(u) == Contains(UrlNetloc(u), "[") \/ Contains(UrlNetloc(u), "]")

urlparse(url) ==
    LET u == UrlCleaned(url)
    IN  [raised |-> UrlRaises(u), scheme |-> UrlScheme(u), netloc |-> UrlNetloc(u)]

---------------------------------------------------------------------------
(* valyu/validation.py *)

\* a returned bool, or an exception leaving the function
Return(v) == [raised |-> FALSE, value |-> v]
Raise == [raised |-> TRUE, value |-> FALSE]

is_valid_domain(domain) ==
    IF ~Contains(domain, ".")
    THEN FALSE
    ELSE MatchDomainPattern(domain) /\ Len(domain) <= 253

\* parsed.netloc.split(":")[0]
NetlocHost(netloc) == BeforeFirst(netloc, ":")

localhost == <<"l","o","c","a","l","h","o","s","t">>

http == <<"h","t","t","p">>
https == <<"h","t","t","p","s">>

\* the body of the try block, given a parse that did not raise
UrlChecks(parsed) ==
    IF ~(parsed.scheme \in {http, https} /\ parsed.netloc # << >>)
    THEN FALSE
    ELSE LET netloc == NetlocHost(parsed.netloc)
         IN  IF netloc = << >> \/ StartsWith(netloc, <<".">>) \/ EndsWithChar(netloc, ".")
             THEN FALSE
             ELSE IF /\ netloc # localhost
                     /\ ~IsDigit(RemoveChars(netloc, {"."}))
                     /\ ~Contains(netloc, ".")
                  THEN FALSE
                  ELSE TRUE

\* is_valid_url_with_path without its try/except: a ValueError of urlparse
\* leaves the function
is_valid_url_with_path_noexcept(url) ==
    LET parsed == urlparse(url)
    IN  IF parsed.raised
        THEN Raise
        ELSE Return(UrlChecks(parsed))

\* is_valid_url_with_path that also holds the whole URL to allowed_chars
is_valid_url_with_path_pathchars(url) ==
    LET parsed == urlparse(url)
    IN  IF parsed.raised
        THEN Return(FALSE)
        ELSE Return(UrlChecks(parsed) /\ \A i \in 1..Len(url) : url[i] \in allowed_chars)

is_valid_url_with_path(url) ==
    LET parsed == urlparse(url)
    IN  IF parsed.raised
        THEN Return(FALSE)            \* except Exception: return False
        ELSE Return(UrlChecks(parsed))

is_valid_domain_with_path(domain_path) ==
    LET domain == BeforeFirst(domain_path, "/")
    IN  IF ~is_valid_domain(domain)
        THEN FALSE
        ELSE IF Contains(domain_path, "/")          \* len(parts) > 1
             THEN LET path == AfterFirst(domain_path, "/")
                  IN  IF path = << >> \/ StartsWith(path, <<"/">>) \/ EndsWithChar(path, "/")
                      THEN FALSE
                      ELSE IF ~(\A i \in 1..Len(path) : path[i] \in allowed_chars)
                           THEN FALSE
                           ELSE TRUE
             ELSE TRUE

\* is_valid_dataset_name with "_" left out of the character class
is_valid_dataset_name_nounderscore(dataset) ==
    MatchDatasetPattern(dataset) /\ ~Contains(dataset, "_")

is_valid_dataset_name(dataset) == MatchDatasetPattern(dataset)

http_prefix == <<"h","t","t","p",":","/","/">>
https_prefix == <<"h","t","t","p","s",":","/","/">>

\* the prefix test made case-insensitive
HasHttpPrefix_nocase(s) ==
    StartsWith(Lower(s), http_prefix) \/ StartsWith(Lower(s), https_prefix)

\* source.startswith(("http://", "https://"))
HasHttpPrefix(s) == StartsWith(s, http_prefix) \/ StartsWith(s, https_prefix)

\* validate_source that sends a string with neither "/" nor "." to the
\* domain pattern instead of rejecting it
validate_source_baredomain(s) ==
    IF s = << >>
    THEN Return(FALSE)
    ELSE IF HasHttpPrefix(s)
    THEN is_valid_url_with_path(s)
    ELSE IF Contains(s, "/")
    THEN IF Contains(s, ".")
         THEN Return(is_valid_domain_with_path(s))
         ELSE IF Count(s, "/") = 1
              THEN Return(is_valid_dataset_name(s))
              ELSE Return(FALSE)
    ELSE Return(MatchDomainPattern(s))

validate_source(s) ==
    IF s = << >>
    THEN Return(FALSE)
    ELSE IF HasHttpPrefix(s)
    THEN is_valid_url_with_path(s)
    ELSE IF Contains(s, "/")
    THEN IF Contains(s, ".")
         THEN Return(is_valid_domain_with_path(s))
         ELSE IF Count(s, "/") = 1
              THEN Return(is_valid_dataset_name(s))
              ELSE Return(FALSE)
    ELSE IF Contains(s, ".")
    THEN Return(is_valid_domain(s))
    ELSE Return(FALSE)

---------------------------------------------------------------------------
(* Inputs: every body of at most MaxBody characters over Alphabet appended *)
(* to each head, and dotted names of long all-letter labels.               *)

Alphabet == {"a", "1", ".", "/", ":", "-", "_", " ", "\n", "?", "["}

Heads ==
    { << >>,
      http_prefix,
      https_prefix,
      <<"f","t","p",":","/","/">>,
      <<"H","T","T","P",":","/","/">>,
      <<"H","t","t","p","s",":","/","/">>,
      <<"a",".","b">>,
      <<"a","/","b">>,
      http_prefix \o localhost,
      http_prefix \o <<"u",":","p","@">>,
      https_prefix \o <<"a",".","b">> }

Bodies == UNION { [1..n -> Alphabet] : n \in 0..MaxBody }

LabelLens == {1, 61, 62, 63, 64}

RECURSIVE JoinLabels(_)
JoinLabels(lens) ==
    IF Len(lens) = 0 THEN << >>
    ELSE IF Len(lens) = 1 THEN [i \in 1..lens[1] |-> "a"]
    ELSE [i \in 1..lens[1] |-> "a"] \o <<".">> \o JoinLabels(Tail(lens))

LongNames == { JoinLabels(lens) : lens \in UNION { [1..n -> LabelLens] : n \in 1..MaxLabels } }

Inputs == { h \o b : h \in Heads, b \in Bodies } \cup LongNames

---------------------------------------------------------------------------
(* The program: a caller holds a string and applies validate_source to it. *)

Init ==
    /\ source \in Inputs
    /\ op = "idle"
    /\ result = FALSE
    /\ raised = FALSE
    /\ ExtraIdle

ValidateSource ==
    /\ op = "idle"
    /\ op' = "validate_source"
    /\ result' = validate_source(source).value
    /\ raised' = validate_source(source).raised
    /\ UNCHANGED <<source, extraVars>>

Next == ValidateSource

Spec == Init /\ [][Next]_vars

---------------------------------------------------------------------------
(* Vocabulary of the properties, stated without the validators' patterns.  *)

Done == op = "validate_source"

\* the label grammar: dot-separated labels of 1 to 63 characters, each
\* starting and ending alphanumeric with alphanumerics or "-" in between,
\* at most 253 characters in all
GrammarDomain(s) ==
    /\ Len(s) >= 1
    /\ Len(s) <= 253
    /\ \A i \in 1..Len(s) : s[i] \in AlnumChars \cup {"-", "."}
    /\ \A i \in 1..Len(s) :
          s[i] \in {"-", "."} =>
              /\ i > 1
              /\ i < Len(s)
              /\ s[i-1] # "."
              /\ s[i+1] # "."
    /\ \A i \in 1..(Len(s) - 63) : \E k \in i..(i + 63) : s[k] = "."

\* a valid Domain: at least one dot and the label grammar
GrammarDottedDomain(s) == Contains(s, ".") /\ GrammarDomain(s)

\* <provider>/<dataset-name>: one "/", both sides non-empty, all else in [A-Za-z0-9_-]
GrammarDataset(s) ==
    /\ Count(s, "/") = 1
    /\ Find(s, "/") > 1
    /\ Find(s, "/") < Len(s)
    /\ \A i \in 1..Len(s) : i # Find(s, "/") => s[i] \in DatasetChars

\* the path after the first "/" of a domain with path
GrammarPath(path) ==
    /\ Len(path) >= 1
    /\ path[1] # "/"
    /\ path[Len(path)] # "/"
    /\ \A i \in 1..Len(path) : path[i] \in allowed_chars

\* no http(s):// prefix, a dot, no slash
DomainShaped(s) == ~HasHttpPrefix(s) /\ Contains(s, ".") /\ ~Contains(s, "/")

\* no http(s):// prefix, a slash and a dot
MixedShaped(s) == ~HasHttpPrefix(s) /\ Contains(s, "/") /\ Contains(s, ".")

\* no http(s):// prefix, a slash, no dot
SlashOnlyShaped(s) == ~HasHttpPrefix(s) /\ Contains(s, "/") /\ ~Contains(s, ".")

WhitespaceOnly(s) == \A i \in 1..Len(s) : s[i] \in {" ", "\t", "\r", "\n"}

Kinds == {"Domain", "DomainWithPath", "AbsoluteUrl", "DatasetId"}

\* s is a well-formed reference of the kind
ValidAs(kind, s) ==
    CASE kind = "AbsoluteUrl"    -> HasHttpPrefix(s) /\ is_valid_url_with_path(s).value
      [] kind = "DomainWithPath" -> Contains(s, "/") /\ is_valid_domain_with_path(s)
      [] kind = "Domain"         -> is_valid_domain(s)
      [] kind = "DatasetId"      -> is_valid_dataset_name(s)

ValidKinds(s) == { k \in Kinds : ValidAs(k, s) }

\* the kind the dispatch order assigns to a string by its shape
DispatchKind(s) ==
    IF HasHttpPrefix(s) THEN "AbsoluteUrl"
    ELSE IF Contains(s, "/")
         THEN (IF Contains(s, ".") THEN "DomainWithPath" ELSE "DatasetId")
         ELSE "Domain"

---------------------------------------------------------------------------
(* C1 *)

\* C1: validate_source finishes with a boolean and never raises; an accepted
\* string is valid under exactly one kind, the one the dispatch order
\* (http(s):// prefix, then "/", then ".") gives it, and a rejected string
\* is valid under none.
C1_TotalExclusive ==
    Done =>
        /\ ~raised
        /\ result \in BOOLEAN
        /\ result => ValidKinds(source) = {DispatchKind(source)}
        /\ ~result => ValidKinds(source) = {}

\* a URL on which urlparse raises ValueError has been validated
C1_Witness ==
    /\ Done
    /\ HasHttpPrefix(source)
    /\ urlparse(source).raised
    /\ ~result
    /\ ~raised

---------------------------------------------------------------------------
(* C2 *)

\* C2: a string with no http(s):// prefix, a dot and no slash is accepted
\* exactly when it follows the label grammar within 253 characters.
C2_DomainGrammar ==
    (Done /\ DomainShaped(source)) => (result = GrammarDomain(source))

---------------------------------------------------------------------------
(* C3 *)

\* the authority with only an optional trailing ":<port>" removed
StripTrailingPort(auth) ==
    LET colons == { i \in 1..Len(auth) : auth[i] = ":" }
        last   == CHOOSE i \in colons : \A j \in colons : j <= i
    IN  IF colons # {} /\ \A k \in (last + 1)..Len(auth) : auth[k] \in digits
        THEN SubSeq(auth, 1, last - 1)
        ELSE auth

HostRule(host) ==
    /\ ~StartsWith(host, <<".">>)
    /\ ~EndsWithChar(host, ".")
    /\ \/ host = localhost
       \/ (Len(host) >= 1 /\ \A i \in 1..Len(host) : host[i] \in digits \cup {"."})
       \/ Contains(host, ".")

\* C3: a string with an http(s):// prefix is accepted exactly when it
\* parses, its authority is non-empty and the host left after stripping
\* only an optional trailing port passes the host rule.
C3_HostRule ==
    (Done /\ HasHttpPrefix(source)) =>
        (result = (/\ ~urlparse(source).raised
                   /\ urlparse(source).netloc # << >>
                   /\ HostRule(StripTrailingPort(urlparse(source).netloc))))

---------------------------------------------------------------------------
(* C4 *)

\* C4: a string with no http(s):// prefix, a slash and a dot is accepted
\* exactly when the text before its first "/" follows the domain grammar
\* and the text after it is a non-empty path of permitted characters that
\* neither starts nor ends with "/".
C4_DomainWithPathRule ==
    (Done /\ MixedShaped(source)) =>
        (result = (/\ GrammarDottedDomain(BeforeFirst(source, "/"))
                   /\ GrammarPath(AfterFirst(source, "/"))))

---------------------------------------------------------------------------
(* C5 *)

\* C5: every string of the shape <provider>/<dataset-name> over
\* [A-Za-z0-9_-] is accepted.
C5_DatasetAccepted ==
    (Done /\ GrammarDataset(source)) => result

\* a dataset identifier with an underscore has been accepted
C5_Witness ==
    /\ Done
    /\ GrammarDataset(source)
    /\ Contains(source, "_")
    /\ result

---------------------------------------------------------------------------
(* C6 *)

\* C6: a string with a slash, no dot and no http(s):// prefix is accepted
\* only if it has the shape <provider>/<dataset-name> over [A-Za-z0-9_-].
C6_DatasetOnly ==
    (Done /\ SlashOnlyShaped(source) /\ result) => GrammarDataset(source)

---------------------------------------------------------------------------
(* C7 *)

\* C7: the empty string, whitespace-only strings and non-empty strings with
\* neither a dot nor a slash are rejected.
C7_BareRejected ==
    (Done /\ (\/ source = << >>
              \/ WhitespaceOnly(source)
              \/ (~Contains(source, ".") /\ ~Contains(source, "/")))) => ~result

\* a bare word of letters and digits has been rejected
C7_Witness ==
    /\ Done
    /\ Len(source) >= 2
    /\ \A i \in 1..Len(source) : source[i] \in AlnumChars
    /\ ~result

---------------------------------------------------------------------------
(* C8 *)

\* C8: a string with no http(s):// prefix, a slash and a dot whose text
\* before the first "/" is not a valid domain is rejected, also when it has
\* exactly one "/".
C8_MixedNeedsDomain ==
    (Done /\ MixedShaped(source) /\ ~GrammarDottedDomain(BeforeFirst(source, "/"))) => ~result

---------------------------------------------------------------------------
(* C9 *)

\* s is <scheme>://<rest> with no "/" in <scheme>
SchemeForm(s) ==
    \E k \in 1..(Len(s) - 2) :
        /\ SubSeq(s, k, k + 2) = <<":", "/", "/">>
        /\ ~Contains(SubSeq(s, 1, k - 1), "/")

\* the <scheme> of such a string: the text before its first ":/"
SchemeOf(s) == SubSeq(s, 1, Find(s, "/") - 2)

\* C9: a string <scheme>://<rest> whose scheme is not exactly the lowercase
\* http or https is rejected.
C9_SchemeCaseSensitive ==
    (Done /\ SchemeForm(source) /\ SchemeOf(source) \notin {http, https}) => ~result

\* an upper-case HTTP URL that urlparse alone would take has been rejected
C9_Witness ==
    /\ Done
    /\ SchemeForm(source)
    /\ SchemeOf(source) \notin {http, https}
    /\ Lower(SchemeOf(source)) \in {http, https}
    /\ is_valid_url_with_path(source).value
    /\ ~result

---------------------------------------------------------------------------
(* C10 *)

\* the http(s):// prefix and the authority: the text up to the first of "/?#"
\* after the prefix
UrlHead(s) ==
    LET start == IF StartsWith(s, https_prefix) THEN Len(https_prefix) ELSE Len(http_prefix)
        delims == { i \in (start + 1)..Len(s) : s[i] \in {"/", "?", "#"} }
    IN  IF delims = {} THEN s
        ELSE SubSeq(s, 1, (CHOOSE i \in delims : \A j \in delims : i <= j) - 1)

\* C10: an http(s) URL gets the result of its prefix and authority alone,
\* whatever path, query or fragment follows; so two URLs that differ only
\* after the authority get the same result.
C10_AuthorityOnly ==
    (Done /\ HasHttpPrefix(source)) => (result = validate_source(UrlHead(source)).value)

\* an accepted URL whose path holds a character no domain path may hold
C10_Witness ==
    /\ Done
    /\ HasHttpPrefix(source)
    /\ UrlHead(source) # source
    /\ \E i \in (Len(UrlHead(source)) + 1)..Len(source) : source[i] \notin allowed_chars
    /\ result

---------------------------------------------------------------------------
(* Python values other than one str: a list element is a str, None or an   *)
(* int; a list is an object on the heap, known by its reference.           *)

PyStr(s) == [type |-> "str", text |-> s]
PyNone == [type |-> "NoneType"]
PyInt(n) == [type |-> "int", n |-> n]

\* bool(v)
Truthy(v) ==
    CASE v.type = "str"      -> v.text # << >>
      [] v.type = "NoneType" -> FALSE
      [] v.type = "int"      -> v.n # 0

\* validate_source without its isinstance test: a truthy value that is not
\* a str reaches source.startswith and raises AttributeError
validate_source_value_noisinstance(v) ==
    IF ~Truthy(v)
    THEN Return(FALSE)
    ELSE IF v.type = "str" THEN validate_source(v.text) ELSE Raise

\* validate_source on any value: `if not source or not isinstance(source, str)`
validate_source_value(v) ==
    IF ~Truthy(v) \/ v.type # "str"
    THEN Return(FALSE)
    ELSE validate_source(v.text)

\* the for loop of validate_sources from element i on, invalid_sources so far
RECURSIVE InvalidLoop(_, _, _)
InvalidLoop(sources, i, invalid_sources) ==
    IF i > Len(sources)
    THEN invalid_sources
    ELSE InvalidLoop(sources, i + 1,
                     IF ~validate_source_value(sources[i]).value
                     THEN Append(invalid_sources, sources[i])
                     ELSE invalid_sources)

\* Everything below takes the heap h and the reference r of its list
\* argument and gives the heap afterwards, the returned values and the
\* number of validate_source invocations made.

\* validate_sources that leaves its loop at the first invalid element
validate_sources_break(h, r) ==
    IF h[r] = << >>
    THEN [heap |-> Append(h, << >>), all_valid |-> TRUE,
          invalid |-> Len(h) + 1, calls |-> 0]
    ELSE LET invalid_sources == InvalidLoop(h[r], 1, << >>)
             first == IF invalid_sources = << >> THEN << >>
                      ELSE <<invalid_sources[1]>>
         IN  [heap |-> Append(h, first),
              all_valid |-> Len(first) = 0,
              invalid |-> Len(h) + 1,
              calls |-> IF first = << >> THEN Len(h[r])
                        ELSE CHOOSE i \in 1..Len(h[r]) :
                               /\ h[r][i] = first[1]
                               /\ \A j \in 1..(i - 1) : h[r][j] # first[1]]

\* validate_sources that strips the valid elements from the list it was
\* given and returns that list
validate_sources_inplace(h, r) ==
    IF h[r] = << >>
    THEN [heap |-> h, all_valid |-> TRUE, invalid |-> r, calls |-> 0]
    ELSE LET invalid_sources == InvalidLoop(h[r], 1, << >>)
         IN  [heap |-> [h EXCEPT ![r] = invalid_sources],
              all_valid |-> Len(invalid_sources) = 0,
              invalid |-> r, calls |-> Len(h[r])]

validate_sources(h, r) ==
    IF h[r] = << >>
    THEN [heap |-> Append(h, << >>), all_valid |-> TRUE,
          invalid |-> Len(h) + 1, calls |-> 0]
    ELSE LET invalid_sources == InvalidLoop(h[r], 1, << >>)
         IN  [heap |-> Append(h, invalid_sources),
              all_valid |-> Len(invalid_sources) = 0,
              invalid |-> Len(h) + 1, calls |-> Len(h[r])]

DomainExamples ==
    << <<"e","x","a","m","p","l","e",".","c","o","m">>,
       <<"n","e","w","s",".","y","c","o","m","b","i","n","a","t","o","r",".","c",
           "o","m">>,
       <<"p","a","p","e","r","s","w","i","t","h","c","o","d","e",".","c","o","m">>,
       <<"w","i","k","i","p","e","d","i","a",".","o","r","g">> >>

DomainWithPathExamples ==
    << <<"e","x","a","m","p","l","e",".","c","o","m","/","b","l","o","g">>,
       <<"n","e","w","s",".","y","c","o","m","b","i","n","a","t","o","r",".","c",
           "o","m","/","i","t","e","m","?","i","d","=","1","2","3">>,
       <<"g","i","t","h","u","b",".","c","o","m","/","u","s","e","r","/","r","e",
           "p","o">>,
       <<"d","o","c","s",".","p","y","t","h","o","n",".","o","r","g","/","3","/",
           "l","i","b","r","a","r","y","/","u","r","l","l","i","b",".","h",
           "t","m","l">> >>

UrlWithPathExamples ==
    << <<"h","t","t","p","s",":","/","/","a","r","x","i","v",".","o","r","g","/",
           "a","b","s","/","1","7","0","6",".","0","3","7","6","2">>,
       <<"h","t","t","p","s",":","/","/","e","x","a","m","p","l","e",".","c","o",
           "m","/","p","a","t","h","/","t","o","/","p","a","g","e">>,
       <<"h","t","t","p",":","/","/","d","o","m","a","i","n",".","c","o","m","/",
           "s","p","e","c","i","f","i","c","-","a","r","t","i","c","l","e">> >>

DatasetExamples ==
    << <<"v","a","l","y","u","/","v","a","l","y","u","-","a","r","x","i","v">>,
       <<"w","i","l","e","y","/","w","i","l","e","y","-","f","i","n","a","n","c",
           "e","-","b","o","o","k","s">>,
       <<"p","r","o","v","i","d","e","r","/","d","a","t","a","s","e","t","-","n",
           "a","m","e">> >>

\* get_source_format_examples with the lists of two categories swapped
get_source_format_examples_swapped ==
    [domain |-> DomainExamples,
     domain_with_path |-> UrlWithPathExamples,
     url_with_path |-> DomainWithPathExamples,
     dataset |-> DatasetExamples]

get_source_format_examples ==
    [domain |-> DomainExamples,
     domain_with_path |-> DomainWithPathExamples,
     url_with_path |-> UrlWithPathExamples,
     dataset |-> DatasetExamples]

\* sep.join(texts)
RECURSIVE Join(_, _)
Join(texts, sep) ==
    IF Len(texts) = 0 THEN << >>
    ELSE IF Len(texts) = 1 THEN texts[1]
    ELSE texts[1] \o sep \o Join(Tail(texts), sep)

CommaSpace == <<",", " ">>

\* "Invalid source format(s): "
MsgInvalid ==
    <<"I","n","v","a","l","i","d"," ","s","o","u","r","c","e"," ","f","o","r",
      "m","a","t","(","s",")",":"," ">>

\* "\n\n" and "Sources must be formatted as one of:\n"
MsgMustBe ==
    <<"\n","\n","S","o","u","r","c","e","s"," ","m","u","s","t"," ","b","e"," ",
      "f","o","r","m","a","t","t","e","d"," ","a","s"," ","o","n","e"," ",
      "o","f",":","\n">>

\* the bullet is one character, U+2022
MsgDomain ==
    <<"U+2022"," ","D","o","m","a","i","n",":"," ">>

MsgDomainWithPath ==
    <<"\n","U+2022"," ","D","o","m","a","i","n"," ","w","i","t","h"," ","p","a",
      "t","h",":"," ">>

MsgUrlWithPath ==
    <<"\n","U+2022"," ","U","R","L"," ","w","i","t","h"," ","p","a","t","h",":",
      " ">>

MsgDataset ==
    <<"\n","U+2022"," ","D","a","t","a","s","e","t"," ","n","a","m","e",":",
      " ">>

\* the text after the joined invalid sources
MsgFormats ==
    LET examples == get_source_format_examples
    IN  MsgMustBe
        \o MsgDomain \o Join(examples.domain, CommaSpace)
        \o MsgDomainWithPath \o Join(examples.domain_with_path, CommaSpace)
        \o MsgUrlWithPath \o Join(examples.url_with_path, CommaSpace)
        \o MsgDataset \o Join(examples.dataset, CommaSpace)

\* format_validation_error that names only the first invalid source
format_validation_error_first(h, r) ==
    IF \E i \in 1..Len(h[r]) : h[r][i].type # "str"
    THEN [heap |-> h, raised |-> TRUE, value |-> << >>, calls |-> 0]
    ELSE [heap |-> h, raised |-> FALSE,
          value |-> MsgInvalid
                    \o (IF Len(h[r]) = 0 THEN << >> ELSE h[r][1].text)
                    \o MsgFormats,
          calls |-> 0]

\* ', '.join(invalid_sources) raises TypeError on an element that is not a str
format_validation_error(h, r) ==
    IF \E i \in 1..Len(h[r]) : h[r][i].type # "str"
    THEN [heap |-> h, raised |-> TRUE, value |-> << >>, calls |-> 0]
    ELSE [heap |-> h, raised |-> FALSE,
          value |-> MsgInvalid
                    \o Join([i \in 1..Len(h[r]) |-> h[r][i].text], CommaSpace)
                    \o MsgFormats,
          calls |-> 0]

---------------------------------------------------------------------------
(* The list functions: a caller holds one list of sources and applies      *)
(* validate_sources, format_validation_error, get_source_format_examples   *)
(* or, to one of its elements, validate_source.                            *)

\* longest list of sources
MaxList == 3

SourcePool ==
    { <<"a",".","b">>,
      <<"a","/","b">>,
      https_prefix \o <<"a",".","b">>,
      <<"a",".","b","/","c">>,
      <<"a","b">>,
      <<"a",".",".","b">>,
      << >> }

ElemPool == { PyStr(s) : s \in SourcePool } \cup { PyNone, PyInt(5) }

SourceLists == UNION { [1..n -> ElemPool] : n \in 0..MaxList }

ListsInit ==
    /\ source = << >>
    /\ op = "idle"
    /\ result = FALSE
    /\ raised = FALSE
    /\ heap \in { <<sources>> : sources \in SourceLists }
    /\ args = [sources |-> 1]
    /\ ret = [fn |-> "none"]
    /\ nvalidate = 0
    /\ sent = << >>
    /\ CallIdle
    /\ WaitIdle
    /\ StreamIdle
    /\ HttpIdle

CallValidateSources ==
    /\ op = "idle"
    /\ LET r == validate_sources(heap, args.sources)
       IN  /\ heap' = r.heap
           /\ ret' = [all_valid |-> r.all_valid, invalid |-> r.invalid]
           /\ nvalidate' = nvalidate + r.calls
    /\ op' = "validate_sources"
    /\ raised' = FALSE
    /\ UNCHANGED <<source, result, args, sent, callVars, waitVars, streamVars, httpVars>>

CallFormatValidationError ==
    /\ op = "idle"
    /\ LET r == format_validation_error(heap, args.sources)
       IN  /\ heap' = r.heap
           /\ ret' = [value |-> r.value]
           /\ raised' = r.raised
           /\ nvalidate' = nvalidate + r.calls
    /\ op' = "format_validation_error"
    /\ UNCHANGED <<source, result, args, sent, callVars, waitVars, streamVars, httpVars>>

CallGetSourceFormatExamples ==
    /\ op = "idle"
    /\ ret' = get_source_format_examples
    /\ op' = "get_source_format_examples"
    /\ UNCHANGED <<source, result, raised, heap, args, nvalidate, sent, callVars, waitVars, streamVars, httpVars>>

CallValidateSourceValue ==
    /\ op = "idle"
    /\ \E i \in 1..Len(heap[args.sources]) :
          /\ args' = [sources |-> args.sources, index |-> i]
          /\ ret' = [value |-> validate_source_value(heap[args.sources][i]).value]
          /\ raised' = validate_source_value(heap[args.sources][i]).raised
    /\ nvalidate' = nvalidate + 1
    /\ op' = "validate_source_value"
    /\ UNCHANGED <<source, result, heap, sent, callVars, waitVars, streamVars, httpVars>>

ListsNext ==
    \/ CallValidateSources
    \/ CallFormatValidationError
    \/ CallGetSourceFormatExamples
    \/ CallValidateSourceValue

ListsSpec == ListsInit /\ [][ListsNext]_vars

---------------------------------------------------------------------------
(* Vocabulary of the list properties *)

AllStr(list) == \A i \in 1..Len(list) : list[i].type = "str"

\* the positions of the strings of a list that validate_source rejects
RejectedAt(list) == { i \in 1..Len(list) : ~validate_source(list[i].text).value }

\* the k-th smallest member of a set of positions
KthOf(positions, k) ==
    CHOOSE i \in positions : Cardinality({ j \in positions : j < i }) = k - 1

\* x occurs in text
IsSubstring(x, text) ==
    \E i \in 1..(Len(text) - Len(x) + 1) : SubSeq(text, i, i + Len(x) - 1) = x

ExampleKeys == {"domain", "domain_with_path", "url_with_path", "dataset"}

\* the kind a category of examples stands for
KeyKind(k) ==
    CASE k = "domain"           -> "Domain"
      [] k = "domain_with_path" -> "DomainWithPath"
      [] k = "url_with_path"    -> "AbsoluteUrl"
      [] k = "dataset"          -> "DatasetId"

---------------------------------------------------------------------------
(* C11 *)

\* C11: for a list of strings validate_sources returns as invalid exactly
\* the rejected elements, in their order and with their multiplicity, every
\* element having been checked, and all_valid exactly when there is none;
\* the empty list gives (True, []).
C11_InvalidSubsequence ==
    (op = "validate_sources" /\ AllStr(heap[args.sources])) =>
        LET list == heap[args.sources]
            invalid == heap[ret.invalid]
        IN  /\ Len(invalid) = Cardinality(RejectedAt(list))
            /\ \A k \in 1..Len(invalid) : invalid[k] = list[KthOf(RejectedAt(list), k)]
            /\ ret.all_valid = (invalid = << >>)
            /\ nvalidate = Len(list)
            /\ list = << >> => (ret.all_valid /\ invalid = << >>)

\* two equal invalid strings with a valid one between them have been reported
C11_Witness ==
    /\ op = "validate_sources"
    /\ AllStr(heap[args.sources])
    /\ Len(heap[args.sources]) = 3
    /\ heap[args.sources][1] = heap[args.sources][3]
    /\ heap[ret.invalid] = <<heap[args.sources][1], heap[args.sources][3]>>
    /\ ~ret.all_valid

---------------------------------------------------------------------------
(* C14 *)

\* C14: for a list of strings format_validation_error returns one string
\* that holds the elements joined by ", " in input order and, for each of
\* the four formats, at least three of its example strings.
C14_MessageContent ==
    (op = "format_validation_error" /\ AllStr(heap[args.sources])) =>
        LET list == heap[args.sources]
        IN  /\ ~raised
            /\ IsSubstring(Join([i \in 1..Len(list) |-> list[i].text], CommaSpace),
                           ret.value)
            /\ \A i \in 1..Len(list) : IsSubstring(list[i].text, ret.value)
            /\ \A k \in ExampleKeys :
                  Cardinality({ i \in 1..Len(get_source_format_examples[k]) :
                                  IsSubstring(get_source_format_examples[k][i], ret.value) }) >= 3

\* a message for two different invalid strings has been formatted
C14_Witness ==
    /\ op = "format_validation_error"
    /\ AllStr(heap[args.sources])
    /\ Len(heap[args.sources]) >= 2
    /\ heap[args.sources][1] # heap[args.sources][2]
    /\ ~raised
    /\ Len(ret.value) > 0

---------------------------------------------------------------------------
(* C15 *)

\* C15: get_source_format_examples has exactly the four keys, at least
\* three examples under each, and validate_source accepts every example
\* through the dispatch branch of its category.
C15_ExamplesValid ==
    op = "get_source_format_examples" =>
        /\ DOMAIN ret = ExampleKeys
        /\ \A k \in ExampleKeys :
              /\ Len(ret[k]) >= 3
              /\ \A i \in 1..Len(ret[k]) :
                    /\ validate_source(ret[k][i]).value
                    /\ DispatchKind(ret[k][i]) = KeyKind(k)

\* the examples have been returned
C15_Witness ==
    /\ op = "get_source_format_examples"
    /\ Len(ret.url_with_path) = 3
    /\ Len(ret.domain) = 4

---------------------------------------------------------------------------
(* C16 *)

\* C16: a step of validate_source, validate_sources or
\* format_validation_error sends no request and changes no list that
\* existed before it; the invalid list of validate_sources is a new object;
\* format_validation_error invokes validate_source not once.
ListsFrame ==
    op' \in {"validate_sources", "format_validation_error", "validate_source_value"} =>
        /\ sent' = sent
        /\ Len(heap') >= Len(heap)
        /\ \A r \in 1..Len(heap) : heap'[r] = heap[r]
        /\ op' = "validate_sources" => ret'.invalid \notin 1..Len(heap)
        /\ op' = "format_validation_error" => nvalidate' = nvalidate

C16_Frame == [][ListsFrame]_vars

\* validate_sources has returned a list equal to its all-invalid argument
\* that is another object
C16_Witness ==
    /\ op = "validate_sources"
    /\ Len(heap[args.sources]) >= 1
    /\ heap[ret.invalid] = heap[args.sources]
    /\ ret.invalid # args.sources

---------------------------------------------------------------------------
(* C18 *)

\* C18: validate_source on a value that is not a string returns False and
\* does not raise.
C18_NonStringRejected ==
    (op = "validate_source_value" /\ heap[args.sources][args.index].type # "str") =>
        (ret.value = FALSE /\ ~raised)

\* a truthy value that is not a string has been validated
C18_Witness ==
    /\ op = "validate_source_value"
    /\ heap[args.sources][args.index] = PyInt(5)
    /\ ret.value = FALSE
    /\ ~raised

---------------------------------------------------------------------------
(* Several callers validating at once.  validate_source keeps no state of  *)
(* its own; the one thing its calls share is the cache that                *)
(* functools.lru_cache keeps for urllib.parse.urlsplit, which              *)
(* is_valid_url_with_path reaches through urlparse.  A call is split at    *)
(* the cache lookup and at the insertion that follows a miss, where calls  *)
(* of other threads can come between.                                      *)

soloVars == <<source, op, result, raised>>

listVars == <<heap, args, ret, nvalidate, sent>>

\* callers running at once
MaxThreads == 2

\* validation results recorded in one run
MaxCalls == 3

Threads == 1..MaxThreads

CallPool ==
    { http_prefix \o <<"a", ".", "b">>,
      http_prefix \o <<"a">>,
      http_prefix \o <<"[">>,
      <<"a", ".", "b">> }

\* a single string for validate_source, a list for validate_sources
CallQueues == { <<s>> : s \in CallPool } \cup { <<s, u>> : s \in CallPool, u \in CallPool }

NoParse == [raised |-> FALSE, scheme |-> << >>, netloc |-> << >>]

IdleThread == [pc |-> "idle", queue |-> << >>, parsed |-> NoParse, cached |-> FALSE]

\* the entries of the cache under the key of a call: home-made key with a
\* scheme only
CacheHit_scheme(c, url) == { e \in c : e.parsed.scheme = UrlScheme(UrlCleaned(url)) }

\* the entries of the cache under the key of a call: the url text itself
CacheHit(c, url) == { e \in c : e.url = url }

\* validate_source reaches urlparse for these strings only
ReachesUrlparse(s) == s # << >> /\ HasHttpPrefix(s)

RECURSIVE PendingUpTo(_)
\* the strings the threads 1..n have still to validate
PendingUpTo(n) == IF n = 0 THEN 0 ELSE Len(threads[n].queue) + PendingUpTo(n - 1)

\* thread t returns from validate_source with value v
Returned(t, v) ==
    /\ log' = Append(log, [fn |-> "validate_source",
                           text |-> Head(threads[t].queue),
                           result |-> v,
                           cached |-> threads[t].cached])
    /\ threads' = [threads EXCEPT ![t] =
                     [pc |-> IF Tail(threads[t].queue) = << >> THEN "idle" ELSE "call",
                      queue |-> Tail(threads[t].queue),
                      parsed |-> NoParse,
                      cached |-> FALSE]]

CallsInit ==
    /\ source = << >>
    /\ op = "idle"
    /\ result = FALSE
    /\ raised = FALSE
    /\ heap = << >>
    /\ args = [fn |-> "validate_source"]
    /\ ret = [fn |-> "none"]
    /\ nvalidate = 0
    /\ sent = << >>
    /\ cache = {}
    /\ threads = [t \in Threads |-> IdleThread]
    /\ log = << >>
    /\ WaitIdle
    /\ StreamIdle
    /\ HttpIdle

\* a caller enters validate_source (one string) or validate_sources
Begin(t) ==
    /\ threads[t].pc = "idle"
    /\ \E q \in CallQueues :
          /\ Len(log) + PendingUpTo(MaxThreads) + Len(q) <= MaxCalls
          /\ threads' = [threads EXCEPT ![t] = [@ EXCEPT !.pc = "call", !.queue = q]]
    /\ UNCHANGED <<cache, log, soloVars, listVars, waitVars, streamVars, httpVars>>

\* validate_source up to the cache lookup of urlsplit, or to its return
\* when the string does not reach urlparse
Dispatch(t) ==
    /\ threads[t].pc = "call"
    /\ LET s == Head(threads[t].queue)
       IN  IF ReachesUrlparse(s)
           THEN /\ threads' = [threads EXCEPT ![t] =
                      IF CacheHit(cache, s) # {}
                      THEN [@ EXCEPT !.pc = "checks",
                                     !.parsed = (CHOOSE e \in CacheHit(cache, s) : TRUE).parsed,
                                     !.cached = TRUE]
                      ELSE [@ EXCEPT !.pc = "miss"]]
                /\ log' = log
           ELSE Returned(t, validate_source(s).value)
    /\ UNCHANGED <<cache, soloVars, listVars, waitVars, streamVars, httpVars>>

\* after a miss: urlsplit runs; a result is stored, an exception is not
Parse(t) ==
    /\ threads[t].pc = "miss"
    /\ LET s == Head(threads[t].queue)
           parsed == urlparse(s)
       IN  IF parsed.raised
           THEN /\ Returned(t, FALSE)
                /\ cache' = cache
           ELSE /\ cache' = (cache \ CacheHit(cache, s)) \cup {[url |-> s, parsed |-> parsed]}
                /\ threads' = [threads EXCEPT ![t] = [@ EXCEPT !.pc = "checks", !.parsed = parsed]]
                /\ log' = log
    /\ UNCHANGED <<soloVars, listVars, waitVars, streamVars, httpVars>>

\* the rest of is_valid_url_with_path on the parse result
Checks(t) ==
    /\ threads[t].pc = "checks"
    /\ Returned(t, UrlChecks(threads[t].parsed))
    /\ UNCHANGED <<cache, soloVars, listVars, waitVars, streamVars, httpVars>>

\* a caller formats an error message for a string: no shared state is read
FormatError(t) ==
    /\ threads[t].pc = "idle"
    /\ Len(log) + PendingUpTo(MaxThreads) < MaxCalls
    /\ \E s \in CallPool :
          log' = Append(log, [fn |-> "format_validation_error", text |-> s,
                              result |-> FALSE, cached |-> FALSE])
    /\ UNCHANGED <<cache, threads, soloVars, listVars, waitVars, streamVars, httpVars>>

\* the cache drops an entry (it is bounded, and urllib.parse.clear_cache
\* empties it)
Evict ==
    /\ \E e \in cache : cache' = cache \ {e}
    /\ UNCHANGED <<threads, log, soloVars, listVars, waitVars, streamVars, httpVars>>

CallsNext ==
    \/ \E t \in Threads : Begin(t)
    \/ \E t \in Threads : Dispatch(t)
    \/ \E t \in Threads : Parse(t)
    \/ \E t \in Threads : Checks(t)
    \/ \E t \in Threads : FormatError(t)
    \/ Evict

CallsSpec == CallsInit /\ [][CallsNext]_vars

---------------------------------------------------------------------------
(* C17 *)

\* C17: whatever calls came before or in between, from one caller or from
\* several, two validate_source results for the same text are equal, and
\* each is the value the text alone determines.
C17_SameResultAgain ==
    \A i \in 1..Len(log) :
        log[i].fn = "validate_source" =>
            /\ log[i].result = validate_source(log[i].text).value
            /\ \A j \in 1..Len(log) :
                  (log[j].fn = "validate_source" /\ log[j].text = log[i].text) =>
                      log[j].result = log[i].result

\* a URL has been validated twice with another call between, the second
\* time with its parse taken from the cache
C17_Witness ==
    /\ Len(log) = 3
    /\ log[1].fn = "validate_source"
    /\ log[3].fn = "validate_source"
    /\ log[1].text = log[3].text
    /\ log[2].text # log[1].text
    /\ ReachesUrlparse(log[1].text)
    /\ ~log[1].cached
    /\ log[3].cached
    /\ log[3].result

---------------------------------------------------------------------------
(* The client operations that take source lists or URL lists: Valyu.search, *)
(* Valyu.answer and Valyu.contents (valyu/api.py).  A call is one step; the *)
(* server's part in it is an input of the step.                             *)

\* the reference that stands for None
None == 0

\* longest sources list given to search and answer
MaxClientList == 2

\* longest URL list given to contents
MaxUrls == 11

ClientPool ==
    { PyStr(<<"A", ".", "b">>),
      PyStr(<<"a", "/", "b">>),
      PyStr(<<"a", ".", ".", "b">>),
      PyNone }

ClientLists == UNION { [1..n -> ClientPool] : n \in 0..MaxClientList }

UrlLists == { [i \in 1..n |-> PyStr(https_prefix \o <<"a", ".", "b">>)] : n \in 0..MaxUrls }

SUPPORTED_COUNTRY_CODES ==
    {
      "ALL", "AR", "AU", "AT", "BE", "BR", "CA", "CL", "DK", "FI",
      "FR", "DE", "HK", "IN", "ID", "IT", "JP", "KR", "MY", "MX",
      "NL", "NZ", "NO", "CN", "PL", "PT", "PH", "RU", "SA", "ZA",
      "ES", "SE", "CH", "TW", "TR", "GB", "US" }

CountryCodes == {"None", "US", "us", "XX"}

\* country_code.upper() on the codes of CountryCodes
upper(country_code) == IF country_code = "us" THEN "US" ELSE country_code

\* len(system_instructions.strip()) may not exceed this
MaxSystemInstructions == 2000

\* system_instructions by the length of its stripped text; None apart
SystemInstructions ==
    { PyNone }
    \cup { [type |-> "str", stripped |-> n] :
             n \in {0, MaxSystemInstructions, MaxSystemInstructions + 1} }

\* what the server and the connection do with a request
HttpOutcomes == {"post_raises", "json_raises", "not_ok", "ok_error", "ok_invalid", "ok"}

\* the texts an error field can hold
NoError == [kind |-> "None"]
MessageText(text) == [kind |-> "message", text |-> text]
ExceptionText(type) == [kind |-> "exception", type |-> type]
FixedText(which) == [kind |-> which]

SearchResponse(success, error, tx_id) ==
    [success |-> success, error |-> error, tx_id |-> tx_id]

AnswerErrorResponse(error) == [success |-> FALSE, error |-> error]

AnswerSuccessResponse == [success |-> TRUE, error |-> NoError]

ContentsResponse(success, error, tx_id, urls_requested, urls_processed, urls_failed) ==
    [success |-> success, error |-> error, tx_id |-> tx_id,
     urls_requested |-> urls_requested,
     urls_processed |-> urls_processed,
     urls_failed |-> urls_failed]

\* how the except clause of a client method reports the exception e
ExceptionOf(reply) ==
    CASE reply = "post_raises" -> ExceptionText("RequestException")
      [] reply = "json_raises" -> ExceptionText("JSONDecodeError")
      [] reply = "ok_invalid"  -> ExceptionText("ValidationError")

\* the one value of a singleton set: in { e(x) : x \in {v} } the value v
\* is computed once, however often e uses it
Only(S) == CHOOSE x \in S : TRUE

\* the validation of one sources argument that goes on as if the list
\* were valid when format_validation_error raises
CheckSources_swallow(h, sources) ==
    IF sources = None
    THEN [heap |-> h, verdict |-> "valid", error |-> NoError, calls |-> 0]
    ELSE Only({ IF v.all_valid
                THEN [heap |-> v.heap, verdict |-> "valid", error |-> NoError,
                      calls |-> v.calls]
                ELSE Only({ [heap |-> f.heap,
                             verdict |-> IF f.raised THEN "valid" ELSE "invalid",
                             error |-> IF f.raised THEN NoError
                                       ELSE MessageText(f.value),
                             calls |-> v.calls + f.calls] :
                            f \in {format_validation_error(v.heap, v.invalid)} }) :
                v \in {validate_sources(h, sources)} })

\* the validation of one sources argument: validate_sources and, when it
\* reports invalid elements, format_validation_error on them
CheckSources(h, sources) ==
    IF sources = None
    THEN [heap |-> h, verdict |-> "valid", error |-> NoError, calls |-> 0]
    ELSE Only({ IF v.all_valid
                THEN [heap |-> v.heap, verdict |-> "valid", error |-> NoError,
                      calls |-> v.calls]
                ELSE Only({ [heap |-> f.heap,
                             verdict |-> IF f.raised THEN "raised" ELSE "invalid",
                             error |-> IF f.raised THEN ExceptionText("TypeError")
                                       ELSE MessageText(f.value),
                             calls |-> v.calls + f.calls] :
                            f \in {format_validation_error(v.heap, v.invalid)} }) :
                v \in {validate_sources(h, sources)} })

NoKeys == [k \in {} |-> << >>]

\* the payload of search with empty lists left out
SearchPayload_truthy(h, included_sources, excluded_sources, country_code) ==
    ("query" :> "query")
    @@ (IF included_sources # None /\ h[included_sources] # << >>
        THEN "included_sources" :> h[included_sources] ELSE NoKeys)
    @@ (IF excluded_sources # None /\ h[excluded_sources] # << >>
        THEN "excluded_sources" :> h[excluded_sources] ELSE NoKeys)
    @@ (IF country_code # "None" THEN "country_code" :> upper(country_code) ELSE NoKeys)

\* the payload of search: the keys that depend on these arguments
SearchPayload(h, included_sources, excluded_sources, country_code) ==
    ("query" :> "query")
    @@ (IF included_sources # None
        THEN "included_sources" :> h[included_sources] ELSE NoKeys)
    @@ (IF excluded_sources # None
        THEN "excluded_sources" :> h[excluded_sources] ELSE NoKeys)
    @@ (IF country_code # "None" THEN "country_code" :> upper(country_code) ELSE NoKeys)

\* search from requests.post on
SearchHttp(reply) ==
    CASE reply \in {"post_raises", "json_raises", "ok_invalid"} ->
            SearchResponse(FALSE, ExceptionOf(reply), "exception")
      [] reply = "not_ok"   -> SearchResponse(FALSE, FixedText("http"), "error")
      [] reply = "ok_error" -> SearchResponse(TRUE, FixedText("server"), "0x0")
      [] reply = "ok"       -> SearchResponse(TRUE, NoError, "tx")

\* search once both arguments have been validated, with outcomes inc, exc
SearchChecked(inc, exc, included_sources, excluded_sources, country_code, reply) ==
    IF inc.verdict = "raised"
    THEN [heap |-> inc.heap, sent |-> << >>, calls |-> inc.calls,
          response |-> SearchResponse(FALSE, inc.error, "exception")]
    ELSE IF inc.verdict = "invalid"
    THEN [heap |-> inc.heap, sent |-> << >>, calls |-> inc.calls,
          response |-> SearchResponse(FALSE, inc.error, "validation-error-included")]
    ELSE IF exc.verdict = "raised"
    THEN [heap |-> exc.heap, sent |-> << >>, calls |-> inc.calls + exc.calls,
          response |-> SearchResponse(FALSE, exc.error, "exception")]
    ELSE IF exc.verdict = "invalid"
    THEN [heap |-> exc.heap, sent |-> << >>, calls |-> inc.calls + exc.calls,
          response |-> SearchResponse(FALSE, exc.error, "validation-error-excluded")]
    ELSE IF country_code # "None" /\ upper(country_code) \notin SUPPORTED_COUNTRY_CODES
    THEN [heap |-> exc.heap, sent |-> << >>, calls |-> inc.calls + exc.calls,
          response |-> SearchResponse(FALSE, FixedText("country_code"),
                                      "validation-error-country")]
    ELSE [heap |-> exc.heap,
          sent |-> <<SearchPayload(exc.heap, included_sources, excluded_sources,
                                   country_code)>>,
          calls |-> inc.calls + exc.calls,
          response |-> SearchHttp(reply)]

\* excluded_sources is validated only when included_sources passed
search(h, included_sources, excluded_sources, country_code, reply) ==
    Only({ Only({ SearchChecked(inc, exc, included_sources, excluded_sources,
                                country_code, reply) :
                  exc \in {IF inc.verdict = "valid"
                           THEN CheckSources(inc.heap, excluded_sources)
                           ELSE inc} }) :
           inc \in {CheckSources(h, included_sources)} })

\* the payload of answer: the keys that depend on these arguments
AnswerPayload(h, included_sources, excluded_sources, country_code, system_instructions) ==
    ("query" :> "query")
    @@ (IF system_instructions.type # "NoneType" THEN "system_instructions" :> "stripped" ELSE NoKeys)
    @@ (IF country_code # "None" THEN "country_code" :> upper(country_code) ELSE NoKeys)
    @@ (IF included_sources # None
        THEN "included_sources" :> h[included_sources] ELSE NoKeys)
    @@ (IF excluded_sources # None
        THEN "excluded_sources" :> h[excluded_sources] ELSE NoKeys)

\* answer from requests.post on
AnswerHttp(reply) ==
    CASE reply \in {"post_raises", "json_raises", "ok_invalid"} ->
            AnswerErrorResponse(ExceptionOf(reply))
      [] reply = "not_ok"   -> AnswerErrorResponse(FixedText("http"))
      [] reply \in {"ok", "ok_error"} -> AnswerSuccessResponse

\* answer once both arguments have been validated, with outcomes inc, exc
AnswerChecked(inc, exc, included_sources, excluded_sources, country_code, system_instructions, reply) ==
    IF inc.verdict # "valid"
    THEN [heap |-> inc.heap, sent |-> << >>, calls |-> inc.calls,
          response |-> AnswerErrorResponse(inc.error)]
    ELSE IF exc.verdict # "valid"
    THEN [heap |-> exc.heap, sent |-> << >>, calls |-> inc.calls + exc.calls,
          response |-> AnswerErrorResponse(exc.error)]
    ELSE IF country_code # "None" /\ upper(country_code) \notin SUPPORTED_COUNTRY_CODES
    THEN [heap |-> exc.heap, sent |-> << >>, calls |-> inc.calls + exc.calls,
          response |-> AnswerErrorResponse(FixedText("country_code"))]
    ELSE IF /\ system_instructions.type # "NoneType"
            /\ system_instructions.stripped > MaxSystemInstructions
    THEN [heap |-> exc.heap, sent |-> << >>, calls |-> inc.calls + exc.calls,
          response |-> AnswerErrorResponse(FixedText("system_instructions"))]
    ELSE [heap |-> exc.heap,
          sent |-> <<AnswerPayload(exc.heap, included_sources, excluded_sources,
                                   country_code, system_instructions)>>,
          calls |-> inc.calls + exc.calls,
          response |-> AnswerHttp(reply)]

answer(h, included_sources, excluded_sources, country_code, system_instructions, reply) ==
    Only({ Only({ AnswerChecked(inc, exc, included_sources, excluded_sources,
                                country_code, system_instructions, reply) :
                  exc \in {IF inc.verdict = "valid"
                           THEN CheckSources(inc.heap, excluded_sources)
                           ELSE inc} }) :
           inc \in {CheckSources(h, included_sources)} })

\* most URLs contents takes in one request
MaxUrlsPerRequest == 10

\* contents from requests.post on, for n URLs
ContentsHttp(reply, n) ==
    CASE reply \in {"post_raises", "json_raises", "ok_invalid"} ->
            ContentsResponse(FALSE, ExceptionOf(reply), "exception", n, 0, n)
      [] reply = "not_ok" -> ContentsResponse(FALSE, FixedText("http"), "error", n, 0, n)
      [] reply \in {"ok", "ok_error"} -> ContentsResponse(TRUE, NoError, "tx", n, n, 0)

\* contents refusing ten URLs already
contents_atleast(h, urls, reply) ==
    IF Len(h[urls]) >= MaxUrlsPerRequest
    THEN [heap |-> h, sent |-> << >>,
          response |-> ContentsResponse(FALSE, FixedText("max_urls"), "error-max-urls",
                                        Len(h[urls]), 0, Len(h[urls]))]
    ELSE [heap |-> h, sent |-> <<("urls" :> h[urls])>>,
          response |-> ContentsHttp(reply, Len(h[urls]))]

contents(h, urls, reply) ==
    IF Len(h[urls]) > MaxUrlsPerRequest
    THEN [heap |-> h, sent |-> << >>,
          response |-> ContentsResponse(FALSE, FixedText("max_urls"), "error-max-urls",
                                        Len(h[urls]), 0, Len(h[urls]))]
    ELSE [heap |-> h, sent |-> <<("urls" :> h[urls])>>,
          response |-> ContentsHttp(reply, Len(h[urls]))]

ClientInit ==
    /\ source = << >>
    /\ op = "idle"
    /\ result = FALSE
    /\ raised = FALSE
    /\ \/ \E given \in BOOLEAN \X BOOLEAN, included \in ClientLists, excluded \in ClientLists :
             /\ given[1] \/ included = << >>
             /\ given[2] \/ excluded = << >>
             /\ heap = (IF given[1] THEN <<included>> ELSE << >>)
                       \o (IF given[2] THEN <<excluded>> ELSE << >>)
             /\ args = [included_sources |-> IF given[1] THEN 1 ELSE None,
                        excluded_sources |-> IF ~given[2] THEN None
                                             ELSE IF given[1] THEN 2 ELSE 1,
                        passed |-> <<included, excluded>>]
       \/ \E urls \in UrlLists :
             /\ heap = <<urls>>
             /\ args = [urls |-> 1]
    /\ ret = [fn |-> "none"]
    /\ nvalidate = 0
    /\ sent = << >>
    /\ CallIdle
    /\ WaitIdle
    /\ StreamIdle
    /\ HttpIdle

CallSearch ==
    /\ op = "idle"
    /\ "included_sources" \in DOMAIN args
    /\ \E country_code \in CountryCodes, reply \in HttpOutcomes :
          \E r \in {search(heap, args.included_sources, args.excluded_sources,
                          country_code, reply)} :
              /\ heap' = r.heap
              /\ sent' = sent \o r.sent
              /\ nvalidate' = nvalidate + r.calls
              /\ ret' = r.response
              /\ replies' = IF r.sent = << >> THEN replies ELSE Append(replies, reply)
    /\ op' = "search"
    /\ UNCHANGED <<source, result, raised, args, callVars, waitVars, streamVars>>

CallAnswer ==
    /\ op = "idle"
    /\ "included_sources" \in DOMAIN args
    /\ \E country_code \in CountryCodes, system_instructions \in SystemInstructions,
          reply \in HttpOutcomes :
          \E r \in {answer(heap, args.included_sources, args.excluded_sources,
                          country_code, system_instructions, reply)} :
              /\ heap' = r.heap
              /\ sent' = sent \o r.sent
              /\ nvalidate' = nvalidate + r.calls
              /\ ret' = r.response
              /\ replies' = IF r.sent = << >> THEN replies ELSE Append(replies, reply)
    /\ op' = "answer"
    /\ UNCHANGED <<source, result, raised, args, callVars, waitVars, streamVars>>

CallContents ==
    /\ op = "idle"
    /\ "urls" \in DOMAIN args
    /\ \E reply \in HttpOutcomes :
          \E r \in {contents(heap, args.urls, reply)} :
              /\ heap' = r.heap
              /\ sent' = sent \o r.sent
              /\ ret' = r.response
              /\ replies' = IF r.sent = << >> THEN replies ELSE Append(replies, reply)
    /\ op' = "contents"
    /\ UNCHANGED <<source, result, raised, args, nvalidate, callVars, waitVars, streamVars>>

ClientNext ==
    \/ CallSearch
    \/ CallAnswer
    \/ CallContents

ClientSpec == ClientInit /\ [][ClientNext]_vars

---------------------------------------------------------------------------
(* C12 *)

\* the list argument holds an element that validate_source rejects
HasRejected(sources) ==
    /\ sources # None
    /\ \E i \in 1..Len(heap[sources]) : ~validate_source_value(heap[sources][i]).value

\* the response carries the formatted validation message for the rejected
\* elements of the list argument
CarriesMessageFor(sources) ==
    LET v == validate_sources(heap, sources)
        f == format_validation_error(v.heap, v.invalid)
    IN  /\ ~f.raised
        /\ ret.error = MessageText(f.value)

\* C12: search and answer called with a sources list that holds a rejected
\* element send no request and return success = False with the formatted
\* validation message as error text.
C12_RejectedShortCircuits ==
    (/\ op \in {"search", "answer"}
     /\ (HasRejected(args.included_sources) \/ HasRejected(args.excluded_sources))) =>
        /\ sent = << >>
        /\ ret.success = FALSE
        /\ \E sources \in {args.included_sources, args.excluded_sources} :
              HasRejected(sources) /\ CarriesMessageFor(sources)

---------------------------------------------------------------------------
(* C13 *)

\* the payload carries the list argument under key exactly when it was
\* given, and then as passed, every element accepted by validate_source
CarriedVerbatim(payload, key, sources, passed) ==
    /\ (key \in DOMAIN payload) <=> (sources # None)
    /\ key \in DOMAIN payload =>
          /\ payload[key] = passed
          /\ \A i \in 1..Len(payload[key]) : validate_source_value(payload[key][i]).value

\* C13: a request sent by search or answer carries included_sources and
\* excluded_sources exactly when the argument is not None, with the list
\* as the caller passed it, and every element of it passes validate_source.
C13_PayloadVerbatim ==
    (op \in {"search", "answer"} /\ sent # << >>) =>
        /\ Len(sent) = 1
        /\ CarriedVerbatim(sent[1], "included_sources", args.included_sources,
                           args.passed[1])
        /\ CarriedVerbatim(sent[1], "excluded_sources", args.excluded_sources,
                           args.passed[2])

\* a request has been sent with a two-element included list holding an
\* upper-case letter, an empty excluded list
C13_Witness ==
    /\ op \in {"search", "answer"}
    /\ Len(sent) = 1
    /\ "included_sources" \in DOMAIN sent[1]
    /\ "excluded_sources" \in DOMAIN sent[1]
    /\ sent[1]["included_sources"] = <<PyStr(<<"A", ".", "b">>), PyStr(<<"a", "/", "b">>)>>
    /\ sent[1]["excluded_sources"] = << >>

---------------------------------------------------------------------------
(* C20 *)

\* C20: contents with more than 10 URLs sends no request and returns
\* success = False, urls_processed = 0 and urls_requested = urls_failed =
\* len(urls); with 10 or fewer URLs the request is sent.
C20_UrlLimit ==
    op = "contents" =>
        IF Len(heap[args.urls]) > 10
        THEN /\ sent = << >>
             /\ ret.success = FALSE
             /\ ret.urls_processed = 0
             /\ ret.urls_requested = Len(heap[args.urls])
             /\ ret.urls_failed = Len(heap[args.urls])
        ELSE /\ Len(sent) = 1
             /\ sent[1]["urls"] = heap[args.urls]

\* contents has refused eleven URLs
C20_Witness ==
    /\ op = "contents"
    /\ Len(heap[args.urls]) = 11
    /\ sent = << >>
    /\ ret.success = FALSE
    /\ ret.urls_failed = 11

---------------------------------------------------------------------------
(* DeepResearchClient.wait (valyu/deepresearch_client.py): one step for    *)
(* the call, one for each pass through the loop body from the status fetch *)
(* to the timeout check, one for each time.sleep.                          *)

\* largest poll_interval
MaxInterval == 2

\* largest max_wait_time
MaxWait == 2

\* the clock is followed as far as a wait with these arguments can run
MaxClock == MaxWait + MaxInterval

DeepResearchStatus == {"queued", "running", "completed", "failed", "cancelled"}

\* what DeepResearchClient.status can return: an error response without a
\* status, or a success response with the status the server gave, if any
StatusResponses ==
    { [success |-> FALSE, status |-> "None"] }
    \cup { [success |-> TRUE, status |-> s] : s \in DeepResearchStatus \cup {"None"} }

WaitArgs ==
    [poll_interval : 1..MaxInterval, max_wait_time : 0..MaxWait, on_progress : BOOLEAN]

\* the loop body of wait that sleeps and polls again after a failed fetch
WaitIteration_retry(st, on_progress, callback_raises, elapsed, max_wait_time) ==
    IF ~st.success
    THEN [kind |-> "sleep", called |-> FALSE]
    ELSE IF on_progress /\ callback_raises
    THEN [kind |-> "CallbackError", called |-> TRUE]
    ELSE IF st.status = "completed"
    THEN [kind |-> "return", called |-> on_progress]
    ELSE IF st.status \in {"failed", "cancelled"}
    THEN [kind |-> "ValueError", called |-> on_progress]
    ELSE IF elapsed > max_wait_time
    THEN [kind |-> "TimeoutError", called |-> on_progress]
    ELSE [kind |-> "sleep", called |-> on_progress]

\* the loop body of wait with the timeout check ahead of the terminal states
WaitIteration_timeoutfirst(st, on_progress, callback_raises, elapsed, max_wait_time) ==
    IF ~st.success
    THEN [kind |-> "ValueError", called |-> FALSE]
    ELSE IF on_progress /\ callback_raises
    THEN [kind |-> "CallbackError", called |-> TRUE]
    ELSE IF elapsed > max_wait_time
    THEN [kind |-> "TimeoutError", called |-> on_progress]
    ELSE IF st.status = "completed"
    THEN [kind |-> "return", called |-> on_progress]
    ELSE IF st.status \in {"failed", "cancelled"}
    THEN [kind |-> "ValueError", called |-> on_progress]
    ELSE [kind |-> "sleep", called |-> on_progress]

\* the loop body of wait that allows one second more than max_wait_time
WaitIteration_late(st, on_progress, callback_raises, elapsed, max_wait_time) ==
    IF ~st.success
    THEN [kind |-> "ValueError", called |-> FALSE]
    ELSE IF on_progress /\ callback_raises
    THEN [kind |-> "CallbackError", called |-> TRUE]
    ELSE IF st.status = "completed"
    THEN [kind |-> "return", called |-> on_progress]
    ELSE IF st.status \in {"failed", "cancelled"}
    THEN [kind |-> "ValueError", called |-> on_progress]
    ELSE IF elapsed > max_wait_time + 1
    THEN [kind |-> "TimeoutError", called |-> on_progress]
    ELSE [kind |-> "sleep", called |-> on_progress]

\* the loop body of wait that calls on_progress after the terminal states
WaitIteration_callbacklast(st, on_progress, callback_raises, elapsed, max_wait_time) ==
    IF ~st.success
    THEN [kind |-> "ValueError", called |-> FALSE]
    ELSE IF st.status = "completed"
    THEN [kind |-> "return", called |-> FALSE]
    ELSE IF st.status \in {"failed", "cancelled"}
    THEN [kind |-> "ValueError", called |-> FALSE]
    ELSE IF on_progress /\ callback_raises
    THEN [kind |-> "CallbackError", called |-> TRUE]
    ELSE IF elapsed > max_wait_time
    THEN [kind |-> "TimeoutError", called |-> on_progress]
    ELSE [kind |-> "sleep", called |-> on_progress]

\* the loop body of wait from the status response st on: how the pass
\* ends, and whether on_progress was called in it
WaitIteration(st, on_progress, callback_raises, elapsed, max_wait_time) ==
    IF ~st.success
    THEN [kind |-> "ValueError", called |-> FALSE]
    ELSE IF on_progress /\ callback_raises
    THEN [kind |-> "CallbackError", called |-> TRUE]
    ELSE IF st.status = "completed"
    THEN [kind |-> "return", called |-> on_progress]
    ELSE IF st.status \in {"failed", "cancelled"}
    THEN [kind |-> "ValueError", called |-> on_progress]
    ELSE IF elapsed > max_wait_time
    THEN [kind |-> "TimeoutError", called |-> on_progress]
    ELSE [kind |-> "sleep", called |-> on_progress]

WaitInit ==
    /\ source = << >>
    /\ op = "idle"
    /\ result = FALSE
    /\ raised = FALSE
    /\ heap = << >>
    /\ args = [fn |-> "wait"]
    /\ ret = [fn |-> "none"]
    /\ nvalidate = 0
    /\ sent = << >>
    /\ CallIdle
    /\ StreamIdle
    /\ HttpIdle
    /\ pc = "idle"
    /\ clock = 0
    /\ wait_args \in WaitArgs
    /\ start_time = 0
    /\ status = [success |-> FALSE, status |-> "None"]
    /\ outcome = [kind |-> "none"]
    /\ progress = << >>
    /\ polls = 0

\* start_time = time.time()
WaitCall ==
    /\ pc = "idle"
    /\ pc' = "loop"
    /\ start_time' = clock
    /\ UNCHANGED <<clock, wait_args, status, outcome, progress, polls,
                   soloVars, listVars, callVars, streamVars, httpVars>>

\* one pass: the status fetch, on_progress, the terminal states, the
\* timeout check; time passes meanwhile
WaitPoll ==
    /\ pc = "loop"
    /\ \E st \in StatusResponses, callback_raises \in BOOLEAN, now \in clock..MaxClock :
          /\ callback_raises => (wait_args.on_progress /\ st.success)
          /\ \E it \in {WaitIteration(st, wait_args.on_progress, callback_raises,
                                      now - start_time, wait_args.max_wait_time)} :
                /\ status' = st
                /\ polls' = polls + 1
                /\ clock' = now
                /\ progress' = IF it.called
                               THEN Append(progress, [status |-> st, raised |-> callback_raises])
                               ELSE progress
                /\ outcome' = IF it.kind = "sleep" THEN outcome
                              ELSE IF it.kind = "return"
                              THEN [kind |-> "return", value |-> st]
                              ELSE [kind |-> it.kind]
                /\ pc' = IF it.kind = "sleep" THEN "sleep" ELSE "done"
    /\ UNCHANGED <<wait_args, start_time, soloVars, listVars, callVars, streamVars, httpVars>>

\* time.sleep(poll_interval)
WaitSleep ==
    /\ pc = "sleep"
    /\ \E now \in (clock + wait_args.poll_interval)..MaxClock : clock' = now
    /\ pc' = "loop"
    /\ UNCHANGED <<wait_args, start_time, status, outcome, progress, polls,
                   soloVars, listVars, callVars, streamVars, httpVars>>

WaitNext ==
    \/ WaitCall
    \/ WaitPoll
    \/ WaitSleep

WaitSpec == WaitInit /\ [][WaitNext]_vars

---------------------------------------------------------------------------
(* C19 *)

\* wait returns only a successful COMPLETED response, and ends at once
\* with ValueError on a failed status fetch
ReturnsCompletedOnly ==
    /\ outcome.kind = "return" =>
          (outcome.value.success /\ outcome.value.status = "completed")
    /\ (polls > 0 /\ ~status.success) => (pc = "done" /\ outcome.kind = "ValueError")
    /\ outcome.kind # "none" => pc = "done"

PolledFailedOrCancelled ==
    polls > 0 /\ status.success /\ status.status \in {"failed", "cancelled"}

\* C19 as stated: wait returns only with success = True and status
\* COMPLETED, raises ValueError as soon as a status fetch fails or a poll
\* reports FAILED or CANCELLED, and never returns a queued or running
\* status.
C19_AsStated ==
    /\ ReturnsCompletedOnly
    /\ PolledFailedOrCancelled => (pc = "done" /\ outcome.kind = "ValueError")

\* C19 amended: as stated, but a poll that reports FAILED or CANCELLED ends
\* wait with ValueError only if on_progress, when given, returned for that
\* poll; if on_progress raised, wait ends with the exception of on_progress.
C19_TerminalOutcomes ==
    /\ ReturnsCompletedOnly
    /\ PolledFailedOrCancelled =>
          /\ pc = "done"
          /\ outcome.kind = IF wait_args.on_progress /\ progress[Len(progress)].raised
                            THEN "CallbackError"
                            ELSE "ValueError"

\* after a poll that slept, a poll has reported CANCELLED to on_progress,
\* which raised, and wait has ended with that exception
C19_Witness ==
    /\ polls = 2
    /\ status = [success |-> TRUE, status |-> "cancelled"]
    /\ Len(progress) = 2
    /\ progress[2].raised
    /\ outcome.kind = "CallbackError"

---------------------------------------------------------------------------
(* C21 *)

\* on_progress was given and raised in the latest pass
LastCallbackRaised ==
    /\ wait_args.on_progress
    /\ Len(progress) > 0
    /\ progress[Len(progress)].raised

PolledCompleted ==
    polls > 0 /\ status.success /\ status.status = "completed"

\* wait ends only after a poll, and with TimeoutError only after a
\* successful poll with a non-terminal status and elapsed > max_wait_time
TimeoutAfterNonTerminalPoll ==
    /\ pc = "done" => polls >= 1
    /\ outcome.kind = "TimeoutError" =>
          /\ status.success
          /\ status.status \notin {"completed", "failed", "cancelled"}
          /\ clock - start_time > wait_args.max_wait_time

\* C21 as stated: at least one poll is made; a COMPLETED poll returns and a
\* FAILED or CANCELLED poll raises ValueError whatever the elapsed time;
\* TimeoutError comes only right after a successful non-terminal poll with
\* elapsed > max_wait_time.
C21_AsStated ==
    /\ TimeoutAfterNonTerminalPoll
    /\ PolledCompleted => (outcome.kind = "return" /\ outcome.value = status)
    /\ PolledFailedOrCancelled => outcome.kind = "ValueError"

\* C21 amended: as stated, for the polls in which on_progress, if given,
\* returned; a poll in which on_progress raised ends wait with the
\* exception of on_progress, whatever the status and the elapsed time.
C21_TerminalBeforeTimeout ==
    /\ TimeoutAfterNonTerminalPoll
    /\ (polls > 0 /\ LastCallbackRaised) => outcome.kind = "CallbackError"
    /\ (PolledCompleted /\ ~LastCallbackRaised) =>
          (outcome.kind = "return" /\ outcome.value = status)
    /\ (PolledFailedOrCancelled /\ ~LastCallbackRaised) => outcome.kind = "ValueError"

\* a COMPLETED status has been returned by a second poll made after
\* max_wait_time had passed
C21_Witness ==
    /\ polls = 2
    /\ outcome.kind = "return"
    /\ outcome.value.status = "completed"
    /\ clock - start_time > wait_args.max_wait_time

---------------------------------------------------------------------------
(* C22 *)

\* the status fetch, on_progress and time.sleep return
WaitFairSpec == WaitInit /\ [][WaitNext]_vars /\ WF_vars(WaitNext)

\* floor(max_wait_time / poll_interval) + 2
PollBound == (wait_args.max_wait_time \div wait_args.poll_interval) + 2

\* C22: with poll_interval >= 1, max_wait_time >= 0 and a clock that
\* advances by at least poll_interval in every sleep, wait makes at most
\* floor(max_wait_time / poll_interval) + 2 polls and ends.
C22_EndsWithinPollBound ==
    /\ [](polls <= PollBound)
    /\ <>(pc = "done")

\* wait has timed out at the last poll the bound allows, the task still
\* running
C22_Witness ==
    /\ pc = "done"
    /\ polls = PollBound
    /\ polls >= 3
    /\ outcome.kind = "TimeoutError"
    /\ status.status = "running"

---------------------------------------------------------------------------
(* C23 *)

\* what a pass does to the calls of on_progress: one more, with the status
\* just fetched, when the fetch succeeded; none when it failed
ProgressStep ==
    /\ polls' = polls => progress' = progress
    /\ (polls' = polls + 1 /\ wait_args.on_progress) =>
          IF status'.success
          THEN /\ Len(progress') = Len(progress) + 1
               /\ SubSeq(progress', 1, Len(progress)) = progress
               /\ progress'[Len(progress')].status = status'
          ELSE progress' = progress

\* C23: on_progress is called exactly once for every successful poll, in
\* poll order and with the status of that poll, the terminal ones and the
\* one that times out included, and never for a failed fetch.
C23_ProgressPerPoll == [][ProgressStep]_vars

\* on_progress has received a queued and then the final FAILED status
C23_Witness ==
    /\ wait_args.on_progress
    /\ polls = 2
    /\ Len(progress) = 2
    /\ progress[1].status.status = "queued"
    /\ progress[2].status.status = "failed"
    /\ outcome.kind = "ValueError"

---------------------------------------------------------------------------
(* DeepResearchClient.stream *)

\* the longest messages list a status response carries
MaxMessages == 2

\* the number of status fetches a stream is followed for
MaxStreamPolls == 2

\* what DeepResearchClient.status hands to stream: an error response, which
\* has neither progress nor messages, or a success response with the
\* status, the progress, if any, and the messages the server gave; a
\* message is known by its position in the list, and no list is the empty
\* one
StreamResponses ==
    { [success |-> FALSE, status |-> "None", progress |-> FALSE, messages |-> 0] }
    \cup [success : {TRUE}, status : DeepResearchStatus \cup {"None"},
          progress : BOOLEAN, messages : 0..MaxMessages]

\* the callbacks given to stream
StreamArgs ==
    [on_message : BOOLEAN, on_progress : BOOLEAN, on_complete : BOOLEAN, on_error : BOOLEAN]

\* one entry of the trace: a status fetch that gave n messages, or the call
\* of a callback, of on_message with message n, that returned or raised
Event(ev, n, exc) == [ev |-> ev, n |-> n, raised |-> exc]

\* status.messages[last_message_count:], as positions
NewMessages(n, last) ==
    IF n > last THEN [i \in 1..(n - last) |-> last + i] ELSE << >>

\* the callbacks a pass calls after a successful fetch that run the
\* terminal callback ahead of the progress and message callbacks
Planned_terminalfirst(st, a, last) ==
    (IF (st.status = "completed" /\ a.on_complete)
     THEN << Event("on_complete", 0, FALSE) >>
     ELSE IF (~st.success \/ st.status \in {"failed", "cancelled"}) /\ a.on_error
     THEN << Event("on_error", 0, FALSE) >>
     ELSE << >>)
    \o (IF st.progress /\ a.on_progress
        THEN << Event("on_progress", 0, FALSE) >>
        ELSE << >>)
    \o (IF st.messages > 0 /\ a.on_message
        THEN [i \in 1..Len(NewMessages(st.messages, last)) |->
                 Event("on_message", NewMessages(st.messages, last)[i], FALSE)]
        ELSE << >>)

\* the callbacks a pass calls, in order, if none of them raises: on_error
\* alone after a failed fetch; otherwise on_progress, on_message for each
\* new message, and on_complete or on_error at a terminal status
Planned(st, a, last) ==
    IF ~st.success
    THEN IF a.on_error THEN << Event("on_error", 0, FALSE) >> ELSE << >>
    ELSE (IF st.progress /\ a.on_progress
          THEN << Event("on_progress", 0, FALSE) >>
          ELSE << >>)
         \o (IF st.messages > 0 /\ a.on_message
             THEN [i \in 1..Len(NewMessages(st.messages, last)) |->
                      Event("on_message", NewMessages(st.messages, last)[i], FALSE)]
             ELSE << >>)
         \o (IF st.status = "completed" /\ a.on_complete
             THEN << Event("on_complete", 0, FALSE) >>
             ELSE IF st.status \in {"failed", "cancelled"} /\ a.on_error
             THEN << Event("on_error", 0, FALSE) >>
             ELSE << >>)

\* the number of calls of a pass up to the end of the message loop
ThroughMessages(st, a, last) ==
    (IF st.progress /\ a.on_progress THEN 1 ELSE 0)
    + Len(NewMessages(st.messages, last))

\* last_message_count after a pass whose r-th call raised (r = 0: none
\* did): len(status.messages) once the message loop has run to its end
CountAfter(st, a, last, r) ==
    IF /\ st.success
       /\ st.messages > 0
       /\ a.on_message
       /\ (r = 0 \/ r > ThroughMessages(st, a, last))
    THEN st.messages
    ELSE last

\* the calls made by a pass with the calls cs planned, whose r-th call
\* raises: those up to the r-th, and then on_error from the except clause
Raising(cs, a, r) ==
    SubSeq(cs, 1, r - 1)
    \o << Event(cs[r].ev, cs[r].n, TRUE) >>
    \o (IF a.on_error THEN << Event("on_error", 0, FALSE) >> ELSE << >>)

\* the loop body of stream that never records the messages it delivered
StreamPass_nocount(st, a, last, r) ==
    [calls |-> IF r = 0 THEN Planned(st, a, last) ELSE Raising(Planned(st, a, last), a, r),
     last  |-> last,
     kind  |-> IF r > 0 THEN "raise"
               ELSE IF ~st.success \/ st.status \in {"completed", "failed", "cancelled"}
               THEN "return"
               ELSE "sleep"]

\* the loop body of stream that returns when the response has no status
StreamPass_missing(st, a, last, r) ==
    [calls |-> IF r = 0 THEN Planned(st, a, last) ELSE Raising(Planned(st, a, last), a, r),
     last  |-> CountAfter(st, a, last, r),
     kind  |-> IF r > 0 THEN "raise"
               ELSE IF ~st.success \/ st.status \in {"completed", "failed", "cancelled", "None"}
               THEN "return"
               ELSE "sleep"]

\* the loop body of stream from the status response st on, with the
\* callbacks a and last_message_count last, when the r-th callback it
\* calls raises (r = 0: none does): the calls made, last_message_count
\* afterwards, and how the pass ends.  Whether the on_error of the except
\* clause raises as well makes no difference: stream ends raising.
StreamPass(st, a, last, r) ==
    [calls |-> IF r = 0 THEN Planned(st, a, last) ELSE Raising(Planned(st, a, last), a, r),
     last  |-> CountAfter(st, a, last, r),
     kind  |-> IF r > 0 THEN "raise"
               ELSE IF ~st.success \/ st.status \in {"completed", "failed", "cancelled"}
               THEN "return"
               ELSE "sleep"]

StreamInit ==
    /\ source = << >>
    /\ op = "idle"
    /\ result = FALSE
    /\ raised = FALSE
    /\ heap = << >>
    /\ args = [fn |-> "stream"]
    /\ ret = [fn |-> "none"]
    /\ nvalidate = 0
    /\ sent = << >>
    /\ CallIdle
    /\ pc = "idle"
    /\ clock = 0
    /\ wait_args = [fn |-> "none"]
    /\ start_time = 0
    /\ status = [success |-> FALSE, status |-> "None", progress |-> FALSE, messages |-> 0]
    /\ outcome = [kind |-> "none"]
    /\ progress = << >>
    /\ polls = 0
    /\ stream_args \in StreamArgs
    /\ last_message_count = 0
    /\ trace = << >>
    /\ HttpIdle

\* last_message_count = 0
StreamCall ==
    /\ pc = "idle"
    /\ pc' = "loop"
    /\ last_message_count' = 0
    /\ UNCHANGED <<stream_args, trace, status, outcome, polls, clock, wait_args,
                   start_time, progress, soloVars, listVars, callVars, httpVars>>

\* one pass: the status fetch, the callbacks, the terminal states
StreamPoll ==
    /\ pc = "loop"
    /\ polls < MaxStreamPolls
    /\ \E st \in StreamResponses :
          \E r \in 0..Len(Planned(st, stream_args, last_message_count)) :
             \E it \in {StreamPass(st, stream_args, last_message_count, r)} :
                /\ status' = st
                /\ polls' = polls + 1
                /\ trace' = Append(trace, Event("status", st.messages, FALSE)) \o it.calls
                /\ last_message_count' = it.last
                /\ outcome' = IF it.kind = "sleep" THEN outcome ELSE [kind |-> it.kind]
                /\ pc' = IF it.kind = "sleep" THEN "sleep" ELSE "done"
    /\ UNCHANGED <<stream_args, clock, wait_args, start_time, progress,
                   soloVars, listVars, callVars, httpVars>>

\* time.sleep(5)
StreamSleep ==
    /\ pc = "sleep"
    /\ pc' = "loop"
    /\ UNCHANGED <<stream_args, last_message_count, trace, status, outcome, polls,
                   clock, wait_args, start_time, progress, soloVars, listVars, callVars, httpVars>>

StreamNext ==
    \/ StreamCall
    \/ StreamPoll
    \/ StreamSleep

StreamSpec == StreamInit /\ [][StreamNext]_vars

---------------------------------------------------------------------------
(* C24 *)

\* the messages passed to on_message so far, in the order of the calls
Delivered ==
    [i \in 1..Len(SelectSeq(trace, LAMBDA e : e.ev = "on_message")) |->
        SelectSeq(trace, LAMBDA e : e.ev = "on_message")[i].n]

\* the lengths of the messages lists of the successful status responses
\* so far, in poll order
Lists ==
    [i \in 1..(IF status.success THEN polls ELSE polls - 1) |->
        SelectSeq(trace, LAMBDA e : e.ev = "status")[i].n]

\* each messages list extends the one before it
AppendOnly == \A i, j \in DOMAIN Lists : i <= j => Lists[i] <= Lists[j]

\* the messages seen so far: those of the longest list
Seen == IF Lists = << >> THEN 0 ELSE Lists[Len(Lists)]

\* no callback has raised
NoRaise == \A i \in DOMAIN trace : ~trace[i].raised

\* between two passes, or after the last one
AfterPass == polls > 0 /\ pc \in {"sleep", "done"}

\* C24 as stated, for every run: after each pass the messages seen so
\* far have each been passed to on_message once, in list order.
C24_AsStated ==
    (stream_args.on_message /\ AfterPass /\ AppendOnly) =>
        Delivered = [i \in 1..Seen |-> i]

\* C24: with an on_message callback and append-only messages lists, the
\* messages passed to on_message are at all times the first messages of
\* the list, each once and in list order; and after every pass in which
\* no callback has raised they are all the messages seen so far.
C24_DeliveredOnce ==
    (stream_args.on_message /\ AfterPass /\ AppendOnly) =>
        /\ Delivered = [i \in 1..Len(Delivered) |-> i]
        /\ Len(Delivered) <= Seen
        /\ NoRaise => Len(Delivered) = Seen

\* two polls, the second list one message longer than the first, both
\* messages delivered and the stream over
C24_Witness ==
    /\ stream_args.on_message
    /\ pc = "done"
    /\ outcome.kind = "return"
    /\ NoRaise
    /\ Lists = <<1, 2>>
    /\ Delivered = <<1, 2>>

---------------------------------------------------------------------------
(* C25 *)

\* all four callbacks were given
AllCallbacks ==
    /\ stream_args.on_message
    /\ stream_args.on_progress
    /\ stream_args.on_complete
    /\ stream_args.on_error

\* the calls of on_complete and on_error so far
TerminalCalls == SelectSeq(trace, LAMBDA e : e.ev \in {"on_complete", "on_error"})

\* the place of the last status fetch in the trace
LastFetch == CHOOSE i \in DOMAIN trace :
    /\ trace[i].ev = "status"
    /\ \A j \in DOMAIN trace : trace[j].ev = "status" => j <= i

\* C25: with all callbacks given and none raising, a stream that has
\* ended has called exactly one of on_complete and on_error, once:
\* on_complete if and only if the poll reported COMPLETED, otherwise
\* on_error (FAILED, CANCELLED or a failed fetch); the on_progress and
\* on_message calls of the final poll come before it, it is the last
\* call, no status fetch follows it, and stream has returned; a stream
\* that has not ended has called neither.
C25_OneTerminalCallback ==
    (AllCallbacks /\ NoRaise) =>
        /\ pc # "done" => TerminalCalls = << >>
        /\ pc = "done" =>
              /\ outcome.kind = "return"
              /\ Len(TerminalCalls) = 1
              /\ trace[Len(trace)] = TerminalCalls[1]
              /\ TerminalCalls[1].ev = "on_complete" <=>
                    (status.success /\ status.status = "completed")
              /\ TerminalCalls[1].ev = "on_error" <=>
                    (~status.success \/ status.status \in {"failed", "cancelled"})
              /\ Len(SelectSeq(trace, LAMBDA e : e.ev = "status")) = polls
              /\ LastFetch < Len(trace)
              /\ \A i \in (LastFetch + 1)..(Len(trace) - 1) :
                    trace[i].ev \in {"on_progress", "on_message"}
              /\ status.progress => trace[LastFetch + 1].ev = "on_progress"
              /\ (AppendOnly /\ status.success) => Delivered = [i \in 1..Seen |-> i]

\* a stream that ended in its second poll with COMPLETED: progress and
\* the new message were handed over, then on_complete
C25_Witness ==
    /\ AllCallbacks
    /\ NoRaise
    /\ pc = "done"
    /\ polls = 2
    /\ status.status = "completed"
    /\ SubSeq(trace, LastFetch, Len(trace)) =
          << Event("status", 2, FALSE), Event("on_progress", 0, FALSE),
             Event("on_message", 2, FALSE), Event("on_complete", 0, FALSE) >>

---------------------------------------------------------------------------
(* C26 *)

\* C26: in any stream call, raising callbacks included, on_error is
\* called at most once and never after on_complete.
C26_ErrorAtMostOnce ==
    /\ Len(SelectSeq(trace, LAMBDA e : e.ev = "on_error")) <= 1
    /\ \A i, j \in DOMAIN trace :
          (trace[i].ev = "on_complete" /\ trace[j].ev = "on_error") => j < i

\* on_error follows on_complete only when on_complete raised, and is
\* called a second time only when its first call raised
C26_OnlyAfterRaise ==
    /\ Len(SelectSeq(trace, LAMBDA e : e.ev = "on_error")) <= 2
    /\ \A i, j \in DOMAIN trace :
          (i < j /\ trace[i].ev \in {"on_complete", "on_error"} /\ trace[j].ev = "on_error")
              => (j = i + 1 /\ trace[i].raised)

---------------------------------------------------------------------------
(* C27 *)

\* the status fetch, the callbacks and time.sleep return, so that a
\* stream that can take a step does
StreamFairSpec == StreamInit /\ [][StreamNext]_vars /\ WF_vars(StreamNext)

\* the last poll ends the stream: the fetch failed or the status is final
FinalPoll ==
    /\ polls > 0
    /\ ~status.success \/ status.status \in {"completed", "failed", "cancelled"}

\* C27 as stated, for every run: stream has returned once a poll was
\* final, and has not ended while every poll was a successful one with
\* a queued, running or missing status.
C27_AsStated ==
    /\ FinalPoll => (pc = "done" /\ outcome.kind = "return")
    /\ (polls > 0 /\ ~FinalPoll) => pc # "done"

\* C27: stream has ended exactly when its last poll was final or a
\* callback has raised; it has returned in the first case if no callback
\* raised, and the callback's exception has left it otherwise; and until
\* then it goes on polling, for as many polls as it is followed.
C27_EndsOnlyByPollOrRaise ==
    /\ [](pc = "done" <=> (FinalPoll \/ ~NoRaise))
    /\ []((pc = "done" /\ NoRaise) => outcome.kind = "return")
    /\ []((pc = "done" /\ ~NoRaise) => outcome.kind = "raise")
    /\ [](pc # "done" => outcome.kind = "none")
    /\ <>(pc = "done" \/ polls = MaxStreamPolls)

\* every poll so far gave a missing status, and stream is about to poll
\* again
C27_Witness ==
    /\ polls = MaxStreamPolls
    /\ pc = "loop"
    /\ NoRaise
    /\ status.success
    /\ status.status = "None"
    /\ AllCallbacks

---------------------------------------------------------------------------
(* DeepResearchClient.create (valyu/deepresearch_client.py), next to the   *)
(* operations of Valyu                                                     *)

\* input by its length and the length of input.strip(): "", " " and "q"
CreateInputs ==
    { [len |-> 0, stripped |-> 0], [len |-> 1, stripped |-> 0], [len |-> 1, stripped |-> 1] }

\* the search argument: None, a dict or a SearchConfig, with or without a
\* search_type and an included_sources list
SearchConfigs ==
    [kind : {"None", "dict", "SearchConfig"}, search_type : BOOLEAN,
     included_sources : {None, 1}]

\* bool(search): an empty dict and None are false, a SearchConfig is true
SearchGiven(config) ==
    \/ config.kind = "SearchConfig"
    \/ config.kind = "dict" /\ (config.search_type \/ config.included_sources # None)

\* search_dict: the dict itself, or search.dict(exclude_none=True)
SearchDict(h, config) ==
    (IF config.search_type THEN "search_type" :> "web" ELSE NoKeys)
    @@ (IF config.included_sources # None
        THEN "included_sources" :> h[config.included_sources] ELSE NoKeys)

\* the payload of create: the keys that depend on these arguments
CreatePayload(h, config) ==
    ("input" :> "input")
    @@ (IF SearchGiven(config) THEN "search" :> SearchDict(h, config) ELSE NoKeys)

DeepResearchCreateResponse(success, error) == [success |-> success, error |-> error]

\* create from requests.post on
CreateHttp(reply) ==
    CASE reply \in {"post_raises", "json_raises", "ok_invalid"} ->
            DeepResearchCreateResponse(FALSE, ExceptionOf(reply))
      [] reply = "not_ok"   -> DeepResearchCreateResponse(FALSE, FixedText("http"))
      [] reply = "ok_error" -> DeepResearchCreateResponse(TRUE, FixedText("server"))
      [] reply = "ok"       -> DeepResearchCreateResponse(TRUE, NoError)

\* create: the input check, the payload, the request; search.dict() makes
\* a new list of the included_sources of a SearchConfig
create(h, input, config, reply) ==
    IF input.len = 0 \/ input.stripped = 0
    THEN [heap |-> h, sent |-> << >>,
          response |-> DeepResearchCreateResponse(FALSE, FixedText("input_required"))]
    ELSE [heap |-> IF config.kind = "SearchConfig" /\ config.included_sources # None
                   THEN Append(h, h[config.included_sources])
                   ELSE h,
          sent |-> << CreatePayload(h, config) >>,
          response |-> CreateHttp(reply)]

\* the arguments of one call of create; the included_sources of a
\* SearchConfig are strings
CreateInit ==
    /\ source = << >>
    /\ op = "idle"
    /\ result = FALSE
    /\ raised = FALSE
    /\ \E input \in CreateInputs, config \in SearchConfigs, included \in ClientLists :
          /\ config.kind = "None" => (~config.search_type /\ config.included_sources = None)
          /\ config.included_sources = None => included = << >>
          /\ config.kind = "SearchConfig" =>
                \A i \in 1..Len(included) : included[i].type = "str"
          /\ heap = IF config.included_sources # None THEN <<included>> ELSE << >>
          /\ args = [input |-> input, search |-> config]
    /\ ret = [fn |-> "none"]
    /\ nvalidate = 0
    /\ sent = << >>
    /\ CallIdle
    /\ WaitIdle
    /\ StreamIdle
    /\ HttpIdle

CallCreate ==
    /\ op = "idle"
    /\ "input" \in DOMAIN args
    /\ \E reply \in HttpOutcomes :
          \E r \in {create(heap, args.input, args.search, reply)} :
              /\ heap' = r.heap
              /\ sent' = sent \o r.sent
              /\ ret' = r.response
              /\ replies' = IF r.sent = << >> THEN replies ELSE Append(replies, reply)
    /\ op' = "create"
    /\ UNCHANGED <<source, result, raised, args, nvalidate, callVars, waitVars, streamVars>>

\* one call of one operation of either client
RequestsInit == ClientInit \/ CreateInit

RequestsNext ==
    \/ CallSearch
    \/ CallAnswer
    \/ CallContents
    \/ CallCreate

RequestsSpec == RequestsInit /\ [][RequestsNext]_vars

---------------------------------------------------------------------------
(* C28 *)

\* the source-reference lists a payload carries
CarriedLists(payload) ==
    { payload[k] : k \in {"included_sources", "excluded_sources"} \cap DOMAIN payload }
    \cup (IF "search" \in DOMAIN payload
          THEN { payload["search"][k] : k \in {"included_sources"} \cap DOMAIN payload["search"] }
          ELSE {})

\* every element of every source-reference list of the payload passes
\* validate_source
SourcesAccepted(payload) ==
    \A list \in CarriedLists(payload) :
        \A i \in 1..Len(list) : validate_source_value(list[i]).value

\* C28: no request sent by a client operation carries a source-reference
\* list with an element that validate_source rejects: included_sources
\* and excluded_sources of search and answer, and search.included_sources
\* of create.
C28_NoRejectedSourceSent ==
    \A i \in 1..Len(sent) : SourcesAccepted(sent[i])

\* the same for the requests of search and answer alone
C28_SearchAnswerOnly ==
    op \in {"search", "answer"} => \A i \in 1..Len(sent) : SourcesAccepted(sent[i])

---------------------------------------------------------------------------
(* C29 *)

\* the list argument holds an element that is not a string
HasNonString(sources) ==
    /\ sources # None
    /\ \E i \in 1..Len(heap[sources]) : heap[sources][i].type # "str"

\* the validation of the arguments raises: format_validation_error is
\* called on a list with an element that is not a string
ValidationRaises ==
    \/ HasNonString(args.included_sources)
    \/ ~HasRejected(args.included_sources) /\ HasNonString(args.excluded_sources)

\* the kind of exception behind each way a request can fail
RaisedBy(reply) ==
    CASE reply = "post_raises" -> "RequestException"
      [] reply = "json_raises" -> "JSONDecodeError"
      [] reply = "ok_invalid"  -> "ValidationError"
      [] OTHER                 -> "None"

\* C29: search and answer return a response whatever happens: when
\* source validation raises (a list with a non-string element), no request
\* has been sent and the response has success = False and the text of
\* the exception as error; and when the HTTP call or the parsing of its
\* response raises, the response has success = False and the text of
\* that exception as error.
C29_ExceptionsReturned ==
    op \in {"search", "answer"} =>
        /\ {"success", "error"} \subseteq DOMAIN ret
        /\ ValidationRaises =>
              /\ sent = << >>
              /\ replies = << >>
              /\ ret.success = FALSE
              /\ ret.error = [kind |-> "exception", type |-> "TypeError"]
        /\ \A i \in 1..Len(replies) :
              RaisedBy(replies[i]) # "None" =>
                  /\ ret.success = FALSE
                  /\ ret.error = [kind |-> "exception", type |-> RaisedBy(replies[i])]
        /\ Len(replies) = Len(sent)

\* search with a valid included list and None in the excluded list: the
\* TypeError of the formatter came back as the error, and nothing was sent
C29_Witness ==
    /\ op = "search"
    /\ args.included_sources # None
    /\ args.excluded_sources # None
    /\ heap[args.included_sources] = << PyStr(<<"A", ".", "b">>) >>
    /\ heap[args.excluded_sources] = << PyNone >>
    /\ sent = << >>
    /\ ret.success = FALSE
    /\ ret.error = [kind |-> "exception", type |-> "TypeError"]

\* answer whose request failed in requests.post: the exception came back
\* as the error
C29_WitnessHttp ==
    /\ op = "answer"
    /\ replies = << "post_raises" >>
    /\ Len(sent) = 1
    /\ ret.success = FALSE
    /\ ret.error = [kind |-> "exception", type |-> "RequestException"]

====
